---- MODULE Spec2Model ----
(***************************************************************************)
(* A model of the crawler orchestration service: the RabbitMQ event bus    *)
(* (rabbitmq_events.py), the crawler implementations (crawlers/            *)
(* implementations), the command handlers (crawler_event_handlers.py) and  *)
(* the job registry with its writers (main.py, app.py, tasks.py).          *)
(*                                                                         *)
(* The module holds several specifications over one set of variables;      *)
(* each one moves its own variables and leaves the others alone:           *)
(*   SpecPub      publishing threads and a broker that comes and goes      *)
(*   SpecBus      the consumer callback of the bus, broker reachable       *)
(*   SpecCrawler  one crawler instance of each implementation              *)
(*   SpecOrch     requests, the consumer with its handlers, the crawl task *)
(*   SpecPoller   a launched status poller, the consumer, the crawler      *)
(*   SpecPollerCmds  the same, with commands sent to the job meanwhile     *)
(*   SpecLoop     the consumer thread and its connection                   *)
(*   SpecDb       the jobs table and its writers                           *)
(*   SpecPages    the page pipeline: the Celery task, the content events   *)
(*   SpecPagesFair  the page pipeline, every handler eventually run        *)
(*   SpecManager  the registry of crawlers and its batch operations        *)
(*   SpecStop     a stop request against a launched poller                 *)
(*   SpecBusRaw   the consumer callback, bodies that do not parse included *)
(*   SpecStarts   repeated start_consuming calls and their threads         *)
(*   SpecConfig   the creation of Scrapy crawlers and their settings       *)
(***************************************************************************)
EXTENDS Integers, Sequences, FiniteSets, TLC

VARIABLES
    \* ---- event bus (rabbitmq_events.py)
    brokerUp,        \* the broker accepts connections
    conn,            \* publisher_thread_local.connection, per thread
    chan,            \* publisher_thread_local.channel, per thread
    lastPublish,     \* per thread: what the last publish_event call did
    crawler_queue,   \* broker queue 'crawler_commands'
    status_queue,    \* broker queue 'crawler_status'
    unacked,         \* the delivery held by the consumer (prefetch_count = 1)
    published,       \* number of messages accepted by the broker so far
    acked,           \* ids of messages settled by basic_ack
    dropped,         \* ids of messages settled by basic_nack(requeue=False)
    lastOutcome,     \* per message id: what its latest handling did
    lastSettle       \* per message id: the basic_ack and basic_nack calls of
                     \* its latest handling, in order

busVars == <<brokerUp, conn, chan, lastPublish, crawler_queue, status_queue,
             unacked, published, acked, dropped, lastOutcome, lastSettle>>

    \* ---- one crawler instance (crawlers/interface.py, implementations/)
VARIABLES
    crImpl,          \* which implementation the instance is
    crawler,         \* the instance's fields
    now,             \* the wall clock read by datetime.now()
    crLast           \* the last operation called on it, its result, the
                     \* fields before the call

crVars == <<crImpl, crawler, now, crLast>>

    \* ---- orchestration (main.py, app.py, crawler_event_handlers.py, tasks.py)
VARIABLES
    jobs,            \* job registry: the status of each job, "none" before
                     \* the job is created
    lastEdge,        \* the last status written to a job and what it replaced
    reqPc,           \* per job: where the thread serving its start request is
    stops,           \* number of stop requests and outside commands so far
    active_crawlers, \* CrawlerEventHandler.active_crawlers (its keys)
    crawlers,        \* crawler_manager.crawlers, keyed by job
    poller,          \* per job: the monitor_loop thread and its locals
    task,            \* per job: the run_crawler_task invocation
    sent,            \* every event the bus accepted, in order
    startOk,         \* jobs whose crawler was constructed and started
    stopOk,          \* jobs whose crawler's stop() returned True
    lastCmd          \* the last handler run: the delivery, the state it found,
                     \* what the crawler operation returned, what it published

orchVars == <<jobs, lastEdge, reqPc, stops, active_crawlers, crawlers, poller,
              task, sent, startOk, stopOk, lastCmd>>

\* The consumer thread (rabbitmq_events.py, start_consuming)
VARIABLES
    consuming,           \* RabbitMQEventManager.consuming
    loopPc,              \* where the consume() thread is
    consumer_connection, \* RabbitMQEventManager.consumer_connection
    shutdown,            \* stop_consuming or disconnect has been called
    loopLast,            \* the last failure the consume() thread met
    consumer_threads     \* the consume() threads of the calls of start_consuming,
                         \* in the order of the calls: where each one is

loopVars == <<consuming, loopPc, consumer_connection, shutdown, loopLast,
              consumer_threads>>

\* The jobs table (db.py)
VARIABLES
    table,           \* the rows of jobs, by id
    dbClock,         \* the database's NOW()
    dbLast           \* the last call: its arguments, the table it found

dbVars == <<table, dbClock, dbLast>>

\* The page pipeline (tasks.py, pipelines.py, content_processors.py)
VARIABLES
    task_queue,      \* the process_page_data_task messages Celery holds
    content_queue,   \* the content events the bus holds
    batch_buffer,    \* ContentProcessor.batch_buffer
    processing_stats,\* ContentProcessor.processing_stats: the counters
    web_pages,       \* the rows of web_pages
    items,           \* number of pages handed to the pipeline so far
    redeliveries,    \* number of content events delivered a second time
    pageLast         \* the last run of a task or handler: what it was given,
                     \* what it called, what it published

pageVars == <<task_queue, content_queue, batch_buffer, processing_stats,
              web_pages, items, redeliveries, pageLast>>

\* The registry of crawler_factory.py
VARIABLES
    registry,        \* crawler_manager.crawlers: the crawler under each name
    mgrLast          \* the last call of a registry function: what it found,
                     \* what it called, what it returned

\* The configuration dicts of the Scrapy crawlers (impl.py)
VARIABLES
    dicts,           \* the settings dict objects there are, by reference
    config,          \* self.config of the crawler of each name: its
                     \* spider_name and a reference to its settings dict
    cfgLast          \* the last creation: the name, and the settings each
                     \* crawler held before it

cfgVars == <<dicts, config, cfgLast>>

mgrVars == <<registry, mgrLast, cfgVars>>

vars == <<busVars, crVars, orchVars, loopVars, dbVars, pageVars, mgrVars>>

\* what each section's actions leave alone
notBus == <<crVars, orchVars, loopVars, dbVars, pageVars, mgrVars>>
notCr == <<busVars, orchVars, loopVars, dbVars, pageVars, mgrVars>>
notOrch == <<brokerUp, lastPublish, dropped, lastOutcome, lastSettle, crVars, loopVars,
             dbVars, pageVars, mgrVars>>

-----------------------------------------------------------------------------
(* Bounds of the model *)

MaxMsgs == 2
MaxClock == 2
MaxPages == 1

Threads == {"t1", "t2", "t3"}
PubThreads == {"t1", "t2"}
MsgIds == 1..MaxMsgs

-----------------------------------------------------------------------------
(* Event bus *)

\* class CrawlerEvent: the values of the enumeration
CrawlerEvent ==
    {"start_crawler", "stop_crawler", "pause_crawler", "resume_crawler",
     "crawler_started", "crawler_stopped", "crawler_paused",
     "crawler_resumed", "crawler_completed", "crawler_failed",
     "crawler_progress", "crawler_error"}

\* self.event_handlers after setup_crawler_event_handlers and
\* setup_status_update_handlers have registered their handlers
RegisteredEvents ==
    {"start_crawler", "stop_crawler", "pause_crawler", "resume_crawler",
     "crawler_started", "crawler_stopped", "crawler_completed",
     "crawler_failed", "crawler_paused", "crawler_resumed",
     "crawler_progress"}

NoKey == <<>>
NoMsg == [id |-> 0]

\* publish_event: the routing key of a message; a key is the sequence of its
\* dot-separated words
RoutingKeyOf(event_type, routing_key) ==
    IF routing_key = NoKey
    THEN <<"crawler", "command", event_type>>
    ELSE routing_key

\* publish_crawler_event passes no routing key
PublishCrawlerEventKey(event_type) == RoutingKeyOf(event_type, NoKey)

\* connect_consumer: the two bindings of the topic exchange; '*' matches
\* exactly one word
BoundQueues(key) ==
    {q \in {"crawler_commands", "crawler_status"} :
        /\ Len(key) = 3
        /\ key[1] = "crawler"
        /\ key[2] = (IF q = "crawler_commands" THEN "command" ELSE "status")}

\* pika state of a thread-local connection: "absent" (attribute never set),
\* "None" (_create_connection returned None), "open", "stale" (the broker
\* dropped it, the client has not noticed: is_closed is still False),
\* "closed"
ConnStates == {"absent", "None", "open", "stale", "closed"}
ChanStates == {"absent", "open", "closed"}

\* _create_connection
CreateConnection(up) == IF up THEN "open" ELSE "None"

\* _get_publisher_channel: the connection and channel it leaves behind and
\* how it ends: "channel" (a channel is returned), "none" (None is
\* returned), "attr_error" (None.is_closed raises AttributeError),
\* "conn_error" (opening a channel on a dead connection raises)
GetPublisherChannel(c, ch, up) ==
    IF c = "None"
    THEN [conn |-> c, chan |-> ch, ends |-> "attr_error"]
    ELSE LET c1 == IF c \in {"absent", "closed"} THEN CreateConnection(up) ELSE c
         IN IF c1 = "None"
            THEN [conn |-> c1, chan |-> ch, ends |-> "none"]
            ELSE IF ch \in {"absent", "closed"}
                 THEN IF c1 = "stale"
                      THEN [conn |-> c1, chan |-> ch, ends |-> "conn_error"]
                      ELSE [conn |-> c1, chan |-> "open", ends |-> "channel"]
                 ELSE [conn |-> c1, chan |-> ch, ends |-> "channel"]

\* publish_event: connection, channel, return value and whether the broker
\* took the message
PublishOutcome(c, ch, up) ==
    LET g == GetPublisherChannel(c, ch, up)
    IN CASE g.ends = "none" ->
              [conn |-> g.conn, chan |-> g.chan, ret |-> "False", sent |-> FALSE]
         [] g.ends = "attr_error" ->
              \* except Exception: return False
              [conn |-> g.conn, chan |-> g.chan, ret |-> "False", sent |-> FALSE]
         [] g.ends = "conn_error" ->
              \* except AMQPConnectionError: connection.close(); return False
              [conn |-> "closed", chan |-> "closed", ret |-> "False", sent |-> FALSE]
         [] g.ends = "channel" /\ g.conn = "stale" ->
              \* basic_publish raises AMQPConnectionError
              [conn |-> "closed", chan |-> "closed", ret |-> "False", sent |-> FALSE]
         [] OTHER ->
              [conn |-> g.conn, chan |-> g.chan, ret |-> "True", sent |-> TRUE]

NewMsg(id, event_type) ==
    [id |-> id, type |-> event_type, key |-> PublishCrawlerEventKey(event_type),
     redelivered |-> FALSE, parses |-> TRUE]

\* publish_crawler_event(event_type, data) called on thread t
PublishEvent(t, event_type) ==
    /\ published < MaxMsgs
    /\ LET o == PublishOutcome(conn[t], chan[t], brokerUp)
           m == NewMsg(published + 1, event_type)
           qs == BoundQueues(m.key)
       IN /\ conn' = [conn EXCEPT ![t] = o.conn]
          /\ chan' = [chan EXCEPT ![t] = o.chan]
          /\ lastPublish' = [lastPublish EXCEPT ![t] =
                 [ret |-> o.ret, up |-> brokerUp, prev |-> lastPublish[t].ret,
                  fresh |-> (conn[t] # "open" /\ o.conn = "open")]]
          /\ published' = IF o.sent THEN published + 1 ELSE published
          /\ crawler_queue' = IF o.sent /\ "crawler_commands" \in qs
                              THEN Append(crawler_queue, m) ELSE crawler_queue
          /\ status_queue' = IF o.sent /\ "crawler_status" \in qs
                             THEN Append(status_queue, m) ELSE status_queue
    /\ UNCHANGED <<brokerUp, unacked, acked, dropped, lastOutcome, lastSettle, notBus>>

\* a producer outside the program publishes to the exchange, under a
\* command key, a body that json.loads cannot parse
PublishRaw ==
    /\ published < MaxMsgs
    /\ brokerUp
    /\ published' = published + 1
    /\ crawler_queue' = Append(crawler_queue,
                               [NewMsg(published + 1, "unparseable")
                                   EXCEPT !.parses = FALSE])
    /\ UNCHANGED <<brokerUp, conn, chan, lastPublish, status_queue, unacked,
                   acked, dropped, lastOutcome, lastSettle, notBus>>

\* the broker goes away: every open publisher connection is dead, and the
\* client learns of it only at its next I/O
BrokerDown ==
    /\ brokerUp
    /\ brokerUp' = FALSE
    /\ conn' = [t \in Threads |-> IF conn[t] = "open" THEN "stale" ELSE conn[t]]
    /\ UNCHANGED <<chan, lastPublish, crawler_queue, status_queue, unacked,
                   published, acked, dropped, lastOutcome, lastSettle, notBus>>

BrokerBack ==
    /\ ~brokerUp
    /\ brokerUp' = TRUE
    /\ UNCHANGED <<conn, chan, lastPublish, crawler_queue, status_queue,
                   unacked, published, acked, dropped, lastOutcome, lastSettle, notBus>>

\* start_consuming: basic_qos(prefetch_count=1), basic_consume on
\* crawler_queue only; the broker hands over the head of the queue
Deliver ==
    /\ unacked = NoMsg
    /\ crawler_queue # <<>>
    /\ unacked' = Head(crawler_queue)
    /\ crawler_queue' = Tail(crawler_queue)
    /\ UNCHANGED <<brokerUp, conn, chan, lastPublish, status_queue, published,
                   acked, dropped, lastOutcome, lastSettle, notBus>>

\* _handle_message mutated: the delivery is acked whatever the handler did
SettleAlwaysAck(event_type, outcome) == "ack"

\* _handle_message mutated: every delivery is put back on the queue
SettleAlwaysRequeue(event_type, outcome) == "nack_requeue"

\* _handle_message: how a delivery is settled, from whether a handler is
\* registered for its event type and what the handler did
SettleFor(event_type, outcome) ==
    IF event_type \in RegisteredEvents
    THEN IF outcome = "raise" THEN "nack_requeue" ELSE "ack"
    ELSE "ack"

\* _handle_message mutated: basic_ack is called before the handler, and
\* basic_nack when the handler raised
SettleCallsAckFirst(m, outcome) ==
    IF ~m.parses THEN <<"nack_drop">>
    ELSE IF m.type \in RegisteredEvents /\ outcome = "raise"
    THEN <<"ack", "nack_requeue">>
    ELSE <<"ack">>

\* _handle_message: the basic_ack and basic_nack calls it makes on a channel
\* that works, in order.  A body json.loads cannot parse, or one that is no
\* JSON object, goes to the outer except: basic_nack(requeue=False)
SettleCalls(m, outcome) ==
    IF ~m.parses THEN <<"nack_drop">>
    ELSE <<SettleFor(m.type, outcome)>>

\* the broker's side of a settlement: a requeued message goes back to the
\* head of its queue, flagged redelivered
Settle(m, how) ==
    /\ unacked' = NoMsg
    /\ acked' = IF how = "ack" THEN acked \cup {m.id} ELSE acked
    /\ dropped' = IF how = "nack_drop" THEN dropped \cup {m.id} ELSE dropped
    /\ crawler_queue' = IF how = "nack_requeue"
                        THEN <<[m EXCEPT !.redelivered = TRUE]>> \o crawler_queue
                        ELSE crawler_queue

\* _handle_message for the delivery in flight; the handler returns
\* ("ok") or raises ("raise")
HandleMessage(outcome) ==
    /\ unacked # NoMsg
    /\ LET m == unacked
           o == IF ~m.parses THEN "unparseable"
                ELSE IF m.type \in RegisteredEvents THEN outcome
                ELSE "no_handler"
           calls == SettleCalls(m, outcome)
       IN /\ Settle(m, Head(calls))
          /\ lastOutcome' = [lastOutcome EXCEPT ![m.id] = o]
          /\ lastSettle' = [lastSettle EXCEPT ![m.id] = calls]
    /\ UNCHANGED <<brokerUp, conn, chan, lastPublish, status_queue, published,
                   notBus>>

BusInit ==
    /\ brokerUp = TRUE
    /\ conn = [t \in Threads |-> "absent"]
    /\ chan = [t \in Threads |-> "absent"]
    /\ lastPublish = [t \in Threads |->
                        [ret |-> "none", up |-> TRUE, prev |-> "none", fresh |-> FALSE]]
    /\ crawler_queue = <<>>
    /\ status_queue = <<>>
    /\ unacked = NoMsg
    /\ published = 0
    /\ acked = {}
    /\ dropped = {}
    /\ lastOutcome = [i \in MsgIds |-> "none"]
    /\ lastSettle = [i \in MsgIds |-> << >>]

-----------------------------------------------------------------------------
(* Crawler implementations *)

\* class CrawlerStatus
CrawlerStatus == {"idle", "running", "paused", "stopped", "error", "completed"}

Impls == {"scrapy", "selenium", "api"}

None == -1

\* CrawlerInterface.__init__ with CrawlerStats(); backend is the driver,
\* session or crawler_runner the instance holds
NewCrawler ==
    [status |-> "idle", pages_visited |-> 0, start_time |-> None,
     end_time |-> None, duration |-> None, error |-> "None", backend |-> FALSE]

\* CrawlerInterface._set_error
SetError(c, message) == [c EXCEPT !.status = "error", !.error = message]

\* CrawlerInterface._clear_error
ClearError(c) == [c EXCEPT !.error = "None"]

\* _finalize_stats, the same in the three implementations
FinalizeStats(c, t) ==
    [c EXCEPT !.end_time = t,
              !.duration = IF c.start_time # None THEN t - c.start_time
                           ELSE c.duration]

\* what the backend can do inside start and stop
StartOutcomes(impl) ==
    CASE impl = "scrapy" -> {"completed", "spider_error", "raise"}
      [] impl = "selenium" -> {"ok", "no_driver", "raise"}
      [] OTHER -> {"ok", "raise"}

StopOutcomes == {"ok", "raise"}

\* ScrapyCrawler.start: CrawlerProcess.start() blocks until the crawl has
\* ended, so the callbacks added after it run at once, and the status is set
\* to RUNNING after them
ScrapyStart(c, t, b) ==
    IF c.status = "running" THEN [c |-> c, ret |-> FALSE]
    ELSE LET c1 == ClearError(c)
         IN CASE b = "raise" ->
                   [c |-> SetError([c1 EXCEPT !.backend = TRUE],
                                   "Failed to start crawler"), ret |-> FALSE]
              [] b = "spider_error" ->
                   [c |-> [SetError(FinalizeStats([c1 EXCEPT !.backend = TRUE], t),
                                    "Spider failed")
                             EXCEPT !.status = "running", !.start_time = t],
                    ret |-> TRUE]
              [] OTHER ->
                   [c |-> [FinalizeStats([c1 EXCEPT !.backend = TRUE], t)
                             EXCEPT !.status = "running", !.start_time = t],
                    ret |-> TRUE]

\* ScrapyCrawler.stop
ScrapyStop(c, t, b) ==
    IF c.status \notin {"running", "paused"} THEN [c |-> c, ret |-> TRUE]
    ELSE IF c.backend /\ b = "raise"
         THEN [c |-> SetError(c, "Failed to stop crawler"), ret |-> FALSE]
         ELSE [c |-> [FinalizeStats(c, t) EXCEPT !.status = "stopped"],
               ret |-> TRUE]

\* SeleniumCrawler.start
SeleniumStart(c, t, b) ==
    IF c.status = "running" THEN [c |-> c, ret |-> FALSE]
    ELSE LET c1 == ClearError(c)
         IN CASE b = "no_driver" ->
                   [c |-> SetError([c1 EXCEPT !.backend = FALSE],
                                   "Failed to create WebDriver"), ret |-> FALSE]
              [] b = "raise" ->
                   [c |-> SetError([c1 EXCEPT !.backend = TRUE],
                                   "Failed to start crawler"), ret |-> FALSE]
              [] OTHER ->
                   [c |-> [c1 EXCEPT !.backend = TRUE, !.status = "running",
                                     !.start_time = t],
                    ret |-> TRUE]

\* SeleniumCrawler.stop and CustomAPICrawler.stop: no check of the status
UncheckedStop(c, t, b) ==
    IF c.backend /\ b = "raise"
    THEN [c |-> SetError(c, "Failed to stop crawler"), ret |-> FALSE]
    ELSE [c |-> [FinalizeStats([c EXCEPT !.backend = FALSE], t)
                   EXCEPT !.status = "stopped"],
          ret |-> TRUE]

\* CustomAPICrawler.start
ApiStart(c, t, b) ==
    IF c.status = "running" THEN [c |-> c, ret |-> FALSE]
    ELSE LET c1 == ClearError(c)
         IN IF b = "raise"
            THEN [c |-> SetError(c1, "Failed to start crawler"), ret |-> FALSE]
            ELSE [c |-> [c1 EXCEPT !.backend = TRUE, !.status = "running",
                                   !.start_time = t],
                  ret |-> TRUE]

\* pause mutated: refuses only a crawler that is already paused
PauseUnlessPaused(c) ==
    IF c.status = "paused" THEN [c |-> c, ret |-> FALSE]
    ELSE [c |-> [c EXCEPT !.status = "paused"], ret |-> TRUE]

\* pause, the same in the three implementations
Pause(c) ==
    IF c.status # "running" THEN [c |-> c, ret |-> FALSE]
    ELSE [c |-> [c EXCEPT !.status = "paused"], ret |-> TRUE]

\* resume, the same in the three implementations
Resume(c) ==
    IF c.status # "paused" THEN [c |-> c, ret |-> FALSE]
    ELSE [c |-> [c EXCEPT !.status = "running"], ret |-> TRUE]

\* start and stop of the implementation impl
Start(impl, c, t, b) ==
    CASE impl = "scrapy" -> ScrapyStart(c, t, b)
      [] impl = "selenium" -> SeleniumStart(c, t, b)
      [] OTHER -> ApiStart(c, t, b)

Stop(impl, c, t, b) ==
    IF impl = "scrapy" THEN ScrapyStop(c, t, b) ELSE UncheckedStop(c, t, b)

Called(op, b, r) ==
    /\ crawler' = r.c
    /\ crLast' = [op |-> op, ret |-> r.ret, pre |-> crawler, backend |-> b]
    /\ UNCHANGED <<crImpl, now, notCr>>

CrStart == \E b \in StartOutcomes(crImpl) : Called("start", b, Start(crImpl, crawler, now, b))
CrStop == \E b \in StopOutcomes : Called("stop", b, Stop(crImpl, crawler, now, b))
CrPause == Called("pause", "none", Pause(crawler))
CrResume == Called("resume", "none", Resume(crawler))

\* SeleniumCrawler.navigate_to, successful
CrNavigate ==
    /\ crImpl = "selenium"
    /\ crawler.backend
    /\ crawler.pages_visited < MaxPages
    /\ crawler' = [crawler EXCEPT !.pages_visited = @ + 1]
    /\ crLast' = [op |-> "navigate_to", ret |-> TRUE, pre |-> crawler,
                   backend |-> "ok"]
    /\ UNCHANGED <<crImpl, now, notCr>>

\* time passes between two calls
Tick ==
    /\ now < MaxClock
    /\ now' = now + 1
    /\ UNCHANGED <<crImpl, crawler, crLast, notCr>>

CrInit(impls) ==
    /\ crImpl \in impls
    /\ crawler = NewCrawler
    /\ now = 0
    /\ crLast = [op |-> "none", ret |-> FALSE, pre |-> NewCrawler,
                  backend |-> "none"]

-----------------------------------------------------------------------------
(* Orchestration: job registry, endpoints, command handlers, status handlers *)

MaxStops == 2

Jobs == {"j1"}

\* the threads that publish: one serving requests, the consumer thread that
\* runs the handlers, the poller thread
RequestThread == "t1"
ConsumerThread == "t2"
PollerThread == "t3"

NoCrawler == [status |-> "absent"]
NoEdge == [job |-> "none", from |-> "none", to |-> "none"]
\* threads: the monitor_loop threads of the job that have not ended
NoPoller == [pc |-> "none", last_status |-> "None", same |-> 0, saw |-> "none",
             threads |-> 0]

\* the locals of monitor_loop when its thread starts
NewPoller == [pc |-> "polling", last_status |-> "None", same |-> 0,
              saw |-> "none", threads |-> 1]

NoStats == <<>>

\* get_status()['stats']
StatsOf(c) ==
    [pages_visited |-> c.pages_visited, start_time |-> c.start_time,
     end_time |-> c.end_time, duration |-> c.duration]

\* the event a handler or endpoint publishes: its type and, from its data,
\* job_id, status (crawler_progress) and stats or final_stats
Event(event_type, j, status, stats) ==
    [type |-> event_type, job |-> j, status |-> status, stats |-> stats]

\* the bus as publish_event reads and writes it
BusState ==
    [conn |-> conn, chan |-> chan, published |-> published,
     crawler_queue |-> crawler_queue, status_queue |-> status_queue,
     sent |-> sent, ok |-> TRUE]

\* publish_crawler_event(ev.type, data) called on thread t
BusPublish(b, t, ev) ==
    LET o == PublishOutcome(b.conn[t], b.chan[t], brokerUp)
        m == [job |-> ev.job, status |-> ev.status, stats |-> ev.stats]
                @@ NewMsg(b.published + 1, ev.type)
        qs == BoundQueues(m.key)
    IN [conn |-> [b.conn EXCEPT ![t] = o.conn],
        chan |-> [b.chan EXCEPT ![t] = o.chan],
        published |-> IF o.sent THEN b.published + 1 ELSE b.published,
        crawler_queue |-> IF o.sent /\ "crawler_commands" \in qs
                          THEN Append(b.crawler_queue, m) ELSE b.crawler_queue,
        status_queue |-> IF o.sent /\ "crawler_status" \in qs
                         THEN Append(b.status_queue, m) ELSE b.status_queue,
        sent |-> IF o.sent THEN Append(b.sent, ev) ELSE b.sent,
        ok |-> o.sent]

\* the publishes of one handler run, in order
RECURSIVE PublishAll(_, _, _)
PublishAll(b, t, evs) ==
    IF evs = <<>> THEN b
    ELSE PublishAll(BusPublish(b, t, Head(evs)), t, Tail(evs))

BusBecomes(b) ==
    /\ conn' = b.conn
    /\ chan' = b.chan
    /\ published' = b.published
    /\ crawler_queue' = b.crawler_queue
    /\ status_queue' = b.status_queue
    /\ sent' = b.sent

\* what the handlers read and write, and the events they publish (out)
\* no handler has run yet
NoCmd == [type |-> "none"]

HandlerState ==
    [jobs |-> jobs, lastEdge |-> lastEdge, crawlers |-> crawlers,
     active |-> active_crawlers, poller |-> poller, startOk |-> startOk,
     stopOk |-> stopOk, out |-> <<>>, called |-> <<>>]

OrchBecomes(s) ==
    /\ jobs' = s.jobs
    /\ lastEdge' = s.lastEdge
    /\ crawlers' = s.crawlers
    /\ active_crawlers' = s.active
    /\ poller' = s.poller
    /\ startOk' = s.startOk
    /\ stopOk' = s.stopOk

Emit(s, event_type, j) ==
    [s EXCEPT !.out = Append(@, Event(event_type, j, "", NoStats))]

\* update_job(job_id, JobUpdate(status=...)): a job that does not exist is
\* left alone
UpdateJob(s, j, status) ==
    IF s.jobs[j] = "none" THEN s
    ELSE [s EXCEPT !.jobs[j] = status,
                   !.lastEdge = [job |-> j, from |-> s.jobs[j], to |-> status]]

\* update_job_status(job_id, status, additional_data)
UpdateJobStatus(s, j, status) == UpdateJob(s, j, status)

\* run_async, were it to return the value it is given
RunAsyncReturns(x) == [raised |-> FALSE, value |-> x]

\* run_async(x): the argument is evaluated by the caller, so the operation
\* has already run and x is its bool result; run_coroutine_threadsafe raises
\* TypeError for an argument that is not a coroutine object
RunAsync(x) == [raised |-> TRUE, value |-> x]

\* create_crawler_from_event_data: the 'api' branch and the fallback branch
\* pass auto_start to create_and_register_crawler, which has no such
\* parameter: TypeError, None is returned; the other constructors can fail
CreateOutcomes(impl) == IF impl = "api" THEN {FALSE} ELSE {TRUE, FALSE}

\* _start_crawler_monitoring: the monitor_loop thread starts
LaunchPoller(s, j) ==
    [s EXCEPT !.poller[j] = [NewPoller EXCEPT !.threads = s.poller[j].threads + 1]]

\* handle_start_crawler
HandleStartCrawler(s, j, created, b) ==
    IF j \notin s.active /\ ~created
    THEN Emit(s, "crawler_failed", j)
    ELSE LET s1 == IF j \notin s.active
                   THEN [s EXCEPT !.crawlers[j] = NewCrawler,
                                  !.active = @ \cup {j}]
                   ELSE s
             r == Start(crImpl, s1.crawlers[j], now, b)
             s2 == [s1 EXCEPT !.crawlers[j] = r.c,
                              !.startOk = IF r.ret THEN @ \cup {j} ELSE @]
             success == RunAsync(r.ret)
         IN IF success.raised
            THEN Emit(s2, "crawler_failed", j)
            ELSE IF success.value
                 THEN LaunchPoller(Emit(s2, "crawler_started", j), j)
                 ELSE Emit(s2, "crawler_failed", j)

\* the job stays in the map
KeepActive(active, j) == active

\* self.active_crawlers.pop(job_id)
PopActive(active, j) == active \ {j}

\* handle_stop_crawler
HandleStopCrawler(s, j, b) ==
    IF j \notin s.active THEN s
    ELSE LET r == Stop(crImpl, s.crawlers[j], now, b)
             s1 == [s EXCEPT !.crawlers[j] = r.c,
                             !.called = Append(@, r.ret),
                             !.stopOk = IF r.ret THEN @ \cup {j} ELSE @]
             success == RunAsync(r.ret)
         IN IF success.raised THEN s1
            ELSE IF success.value
                 THEN Emit([s1 EXCEPT !.active = PopActive(@, j)], "crawler_stopped", j)
                 ELSE Emit(s1, "crawler_failed", j)

\* handle_pause_crawler mutated: the job is not looked up in active_crawlers
HandlePauseAnyJob(s, j) ==
    LET r == Pause(s.crawlers[j])
        s1 == [s EXCEPT !.crawlers[j] = r.c, !.called = Append(@, r.ret)]
        success == RunAsync(r.ret)
    IN IF success.raised THEN s1
       ELSE IF success.value THEN Emit(s1, "crawler_paused", j)
            ELSE Emit(s1, "crawler_failed", j)

\* handle_pause_crawler
HandlePauseCrawler(s, j) ==
    IF j \notin s.active THEN s
    ELSE LET r == Pause(s.crawlers[j])
             s1 == [s EXCEPT !.crawlers[j] = r.c, !.called = Append(@, r.ret)]
             success == RunAsync(r.ret)
         IN IF success.raised THEN s1
            ELSE IF success.value THEN Emit(s1, "crawler_paused", j)
                 ELSE Emit(s1, "crawler_failed", j)

\* handle_resume_crawler
HandleResumeCrawler(s, j) ==
    IF j \notin s.active THEN s
    ELSE LET r == Resume(s.crawlers[j])
             s1 == [s EXCEPT !.crawlers[j] = r.c, !.called = Append(@, r.ret)]
             success == RunAsync(r.ret)
         IN IF success.raised THEN s1
            ELSE IF success.value THEN Emit(s1, "crawler_resumed", j)
                 ELSE Emit(s1, "crawler_failed", j)

\* setup_status_update_handlers: the handler of each lifecycle event
HandleStatusEvent(s, m) ==
    CASE m.type = "crawler_started" -> UpdateJobStatus(s, m.job, "running")
      [] m.type = "crawler_stopped" -> UpdateJobStatus(s, m.job, "stopped")
      [] m.type = "crawler_completed" -> UpdateJobStatus(s, m.job, "completed")
      [] m.type = "crawler_failed" -> UpdateJobStatus(s, m.job, "failed")
      [] m.type = "crawler_paused" -> UpdateJobStatus(s, m.job, "paused")
      [] m.type = "crawler_resumed" -> UpdateJobStatus(s, m.job, "running")
      [] m.type = "crawler_progress" -> UpdateJobStatus(s, m.job, m.status)
      [] OTHER -> s

\* what the crawler's backend can do while the handler of m runs
BackendOutcomes(m) ==
    IF m.type = "start_crawler" THEN StartOutcomes(crImpl) ELSE StopOutcomes

\* self.event_handlers[event_type](data), for the delivery m
RunHandler(s, m, created, b) ==
    CASE m.type = "start_crawler" -> HandleStartCrawler(s, m.job, created, b)
      [] m.type = "stop_crawler" -> HandleStopCrawler(s, m.job, b)
      [] m.type = "pause_crawler" -> HandlePauseCrawler(s, m.job)
      [] m.type = "resume_crawler" -> HandleResumeCrawler(s, m.job)
      [] OTHER -> HandleStatusEvent(s, m)

\* _handle_message for the delivery in flight, with the registered handlers:
\* none of them raises, so the delivery is acked
Consume ==
    /\ unacked # NoMsg
    /\ \E created \in CreateOutcomes(crImpl), b \in BackendOutcomes(unacked) :
          LET m == unacked
              s == RunHandler(HandlerState, m, created, b)
              nb == PublishAll(BusState, ConsumerThread, s.out)
          IN /\ SettleFor(m.type, "ok") = "ack"
             /\ unacked' = NoMsg
             /\ acked' = acked \cup {m.id}
             /\ BusBecomes(nb)
             /\ OrchBecomes(s)
             /\ lastCmd' = [type |-> m.type, job |-> m.job,
                            active |-> active_crawlers, crawlers |-> crawlers,
                            called |-> s.called, out |-> s.out]
    /\ UNCHANGED <<reqPc, stops, task, notOrch>>

-----------------------------------------------------------------------------
(* Endpoints of main.py *)

\* start_crawler, first part: create_job inserts the job with status pending
StartRequestCreate(j) ==
    /\ reqPc[j] = "idle"
    /\ jobs[j] = "none"
    /\ jobs' = [jobs EXCEPT ![j] = "pending"]
    /\ lastEdge' = [job |-> j, from |-> "none", to |-> "pending"]
    /\ reqPc' = [reqPc EXCEPT ![j] = "created"]
    /\ UNCHANGED <<lastCmd, conn, chan, published, crawler_queue, status_queue, unacked,
                   acked, stops, active_crawlers, crawlers, poller, task, sent,
                   startOk, stopOk, notOrch>>

\* start_crawler, second part: publish_crawler_event(START_CRAWLER, ...)
StartRequestPublish(j) ==
    /\ reqPc[j] = "created"
    /\ LET nb == BusPublish(BusState, RequestThread,
                            Event("start_crawler", j, "", NoStats))
       IN /\ BusBecomes(nb)
          /\ reqPc' = [reqPc EXCEPT ![j] = IF nb.ok THEN "published"
                                           ELSE "publish_failed"]
    /\ UNCHANGED <<lastCmd, jobs, lastEdge, unacked, acked, stops, active_crawlers,
                   crawlers, poller, task, startOk, stopOk, notOrch>>

\* start_crawler, last part: update_job to queued, or to failed when the
\* publish returned False
StartRequestUpdate(j) ==
    /\ reqPc[j] \in {"published", "publish_failed"}
    /\ LET s == UpdateJob(HandlerState, j,
                          IF reqPc[j] = "published" THEN "queued" ELSE "failed")
       IN OrchBecomes(s)
    /\ reqPc' = [reqPc EXCEPT ![j] = "done"]
    /\ UNCHANGED <<lastCmd, conn, chan, published, crawler_queue, status_queue, unacked,
                   acked, stops, task, sent, notOrch>>

\* the body of both stop endpoints for one job: publish STOP_CRAWLER and, if
\* that returned True, update_job to stopping; the state and the bus after it
StopOne(sb, j) ==
    LET nb == BusPublish(sb.b, RequestThread, Event("stop_crawler", j, "", NoStats))
    IN [s |-> IF nb.ok THEN UpdateJob(sb.s, j, "stopping") ELSE sb.s, b |-> nb]

\* stop_crawler_by_job taken apart, for the interleavings of the request
\* thread with the consumer and the poller.  First part: the job is looked
\* up and STOP_CRAWLER is published
StopRequestPublish(j) ==
    /\ reqPc[j] = "done"
    /\ stops < MaxStops
    /\ jobs[j] # "none"
    /\ LET nb == BusPublish(BusState, RequestThread,
                            Event("stop_crawler", j, "", NoStats))
       IN /\ BusBecomes(nb)
          /\ reqPc' = [reqPc EXCEPT ![j] = IF nb.ok THEN "stop_published"
                                           ELSE "done"]
    /\ stops' = stops + 1
    /\ UNCHANGED <<lastCmd, jobs, lastEdge, unacked, acked, active_crawlers,
                   crawlers, poller, task, startOk, stopOk, notOrch>>

\* stop_crawler_by_job, last part: the publish returned True and the status
\* is set to stopping
StopRequestUpdate(j) ==
    /\ reqPc[j] = "stop_published"
    /\ OrchBecomes(UpdateJob(HandlerState, j, "stopping"))
    /\ reqPc' = [reqPc EXCEPT ![j] = "done"]
    /\ UNCHANGED <<lastCmd, conn, chan, published, crawler_queue, status_queue,
                   unacked, acked, stops, task, sent, notOrch>>
\* stop_crawler_by_job: any job that exists
StopRequest(j) ==
    /\ stops < MaxStops
    /\ jobs[j] # "none"
    /\ LET r == StopOne([s |-> HandlerState, b |-> BusState], j)
       IN BusBecomes(r.b) /\ OrchBecomes(r.s)
    /\ stops' = stops + 1
    /\ UNCHANGED <<lastCmd, unacked, acked, reqPc, task, notOrch>>

RECURSIVE StopEach(_, _)
StopEach(sb, js) ==
    IF js = {} THEN sb
    ELSE LET j == CHOOSE x \in js : TRUE
         IN StopEach(StopOne(sb, j), js \ {j})

\* stop_all_crawlers_api: every job that is running, queued or paused
StopAllRequest ==
    /\ stops < MaxStops
    /\ LET js == {j \in Jobs : jobs[j] \in {"running", "queued", "paused"}}
           r == StopEach([s |-> HandlerState, b |-> BusState], js)
       IN js # {} /\ BusBecomes(r.b) /\ OrchBecomes(r.s)
    /\ stops' = stops + 1
    /\ UNCHANGED <<lastCmd, unacked, acked, reqPc, task, notOrch>>

\* a client of the bus publishes a pause or resume command for a job; no
\* endpoint does
ExternalCommand(j, cmd) ==
    /\ stops < MaxStops
    /\ jobs[j] # "none"
    /\ BusBecomes(BusPublish(BusState, RequestThread, Event(cmd, j, "", NoStats)))
    /\ stops' = stops + 1
    /\ UNCHANGED <<lastCmd, unacked, acked, jobs, lastEdge, reqPc, active_crawlers,
                   crawlers, poller, task, startOk, stopOk, notOrch>>

-----------------------------------------------------------------------------
(* run_crawler_task (tasks.py) *)

max_retries == 3

NoTask == [pc |-> "none", retries |-> 0]

\* run_crawler_task up to the crawl: update_job to running
TaskBegin(j) ==
    /\ task[j].pc \in {"none", "retry"}
    /\ jobs[j] # "none"
    /\ OrchBecomes(UpdateJob(HandlerState, j, "running"))
    /\ task' = [task EXCEPT ![j].pc = "running"]
    /\ UNCHANGED <<lastCmd, conn, chan, published, crawler_queue, status_queue, unacked,
                   acked, reqPc, stops, sent, notOrch>>

\* run_crawler_task from the return of the crawl: update_job to completed,
\* or to failed and the exception is raised again, which makes Celery retry
\* the task until max_retries
TaskEnd(j, raised) ==
    /\ task[j].pc = "running"
    /\ OrchBecomes(UpdateJob(HandlerState, j,
                             IF raised THEN "failed" ELSE "completed"))
    /\ task' = [task EXCEPT ![j] =
                  IF ~raised THEN [@ EXCEPT !.pc = "done"]
                  ELSE IF @.retries < max_retries
                       THEN [pc |-> "retry", retries |-> @.retries + 1]
                       ELSE [@ EXCEPT !.pc = "dead"]]
    /\ UNCHANGED <<lastCmd, conn, chan, published, crawler_queue, status_queue, unacked,
                   acked, reqPc, stops, sent, notOrch>>

-----------------------------------------------------------------------------
(* The status poller (monitor_loop) and the crawler it watches *)

MaxPolls == 5

\* monitor_loop mutated: no status counts as done
DoneLikeNever(status) == FALSE

DoneLike(status) == status \in {"completed", "finished", "done"}
ErrorLike(status) == status \in {"failed", "error", "stopped"}

\* monitor_loop mutated: an error-like status ends the loop at once
PastThresholdAtOnce(same) == same >= 0

\* consecutive_same_status > 3
PastThreshold(same) == same > 3

\* monitor_loop mutated: no break after the job is popped
LeaveWithoutBreak(p, same, cur) == [p EXCEPT !.same = same, !.saw = cur]

\* break: the loop ends in the pass that popped the job
Leave(p, same, cur) ==
    [p EXCEPT !.pc = "exited", !.same = same, !.saw = cur, !.threads = @ - 1]

\* one pass of the while loop of monitor_loop
PollerStep(j) ==
    /\ poller[j].pc = "polling"
    /\ poller[j].same < MaxPolls
    /\ LET p == poller[j]
           s0 == HandlerState
           c == crawlers[j]
           cur == c.status
           same == IF cur # p.last_status THEN 0 ELSE p.same + 1
           s1 == IF cur # p.last_status
                 THEN [s0 EXCEPT !.out = Append(@,
                          Event("crawler_progress", j, cur, StatsOf(c)))]
                 ELSE s0
           leave == Leave(p, same, cur)
           s2 == CASE j \notin active_crawlers ->
                        [s0 EXCEPT !.poller[j].pc = "exited",
                                   !.poller[j].threads = @ - 1]
                   [] j \in active_crawlers /\ c = NoCrawler ->
                        \* None.get raises; sleep(10) and the next pass
                        s0
                   [] j \in active_crawlers /\ c # NoCrawler /\ DoneLike(cur) ->
                        [s1 EXCEPT !.active = PopActive(@, j), !.poller[j] = leave,
                                   !.out = Append(@,
                                       Event("crawler_completed", j, "", StatsOf(c)))]
                   [] j \in active_crawlers /\ c # NoCrawler /\ ~DoneLike(cur)
                        /\ ErrorLike(cur) /\ PastThreshold(same) ->
                        [s1 EXCEPT !.active = PopActive(@, j), !.poller[j] = leave,
                                   !.out = Append(@,
                                       [error |-> c.error]
                                         @@ Event("crawler_failed", j, "",
                                                  StatsOf(c)))]
                   [] OTHER ->
                        [s1 EXCEPT !.poller[j] =
                            [p EXCEPT !.last_status = cur, !.same = same,
                                      !.saw = cur]]
           nb == PublishAll(BusState, PollerThread, s2.out)
       IN BusBecomes(nb) /\ OrchBecomes(s2)
    /\ UNCHANGED <<lastCmd, unacked, acked, reqPc, stops, task, notOrch>>

\* _on_spider_completed: the crawl of a running Scrapy crawler ends
SpiderCompleted(j) ==
    /\ crImpl = "scrapy"
    /\ crawlers[j] # NoCrawler
    /\ crawlers[j].status = "running"
    /\ crawlers' = [crawlers EXCEPT ![j] =
                      [FinalizeStats(@, now) EXCEPT !.status = "completed"]]
    /\ UNCHANGED <<lastCmd, busVars, crVars, loopVars, dbVars, pageVars, mgrVars, jobs, lastEdge, reqPc, stops,
                   active_crawlers, poller, task, sent, startOk, stopOk>>

\* _on_spider_error: the crawl of a running Scrapy crawler fails
SpiderError(j) ==
    /\ crImpl = "scrapy"
    /\ crawlers[j] # NoCrawler
    /\ crawlers[j].status = "running"
    /\ crawlers' = [crawlers EXCEPT ![j] =
                      SetError(FinalizeStats(@, now), "Spider failed")]
    /\ UNCHANGED <<lastCmd, busVars, crVars, loopVars, dbVars, pageVars, mgrVars, jobs, lastEdge, reqPc, stops,
                   active_crawlers, poller, task, sent, startOk, stopOk>>

-----------------------------------------------------------------------------
(* Initial states of the orchestration *)

OrchInit ==
    /\ jobs = [j \in Jobs |-> "none"]
    /\ lastEdge = NoEdge
    /\ reqPc = [j \in Jobs |-> "idle"]
    /\ stops = 0
    /\ active_crawlers = {}
    /\ crawlers = [j \in Jobs |-> NoCrawler]
    /\ poller = [j \in Jobs |-> NoPoller]
    /\ task = [j \in Jobs |-> NoTask]
    /\ sent = <<>>
    /\ startOk = {}
    /\ stopOk = {}
    /\ lastCmd = NoCmd

\* a crawler on which start() has just returned True
StartedCrawler(impl) ==
    IF impl = "scrapy" THEN ScrapyStart(NewCrawler, 0, "completed").c
    ELSE SeleniumStart(NewCrawler, 0, "ok").c

\* the state in which _start_crawler_monitoring has started the poller of
\* each job: the job is running, its crawler is registered and started
PollerInit ==
    /\ jobs = [j \in Jobs |-> "running"]
    /\ lastEdge = NoEdge
    /\ reqPc = [j \in Jobs |-> "done"]
    /\ stops = 0
    /\ active_crawlers = Jobs
    /\ crawlers = [j \in Jobs |-> StartedCrawler(crImpl)]
    /\ poller = [j \in Jobs |-> NewPoller]
    /\ task = [j \in Jobs |-> NoTask]
    /\ sent = <<>>
    /\ startOk = Jobs
    /\ stopOk = {}
    /\ lastCmd = NoCmd

-----------------------------------------------------------------------------
(* The consumer thread: start_consuming, stop_consuming (rabbitmq_events.py) *)

\* connect_consumer: the connection it leaves behind and what it returns
ConnectConsumer(c, up) ==
    IF c = "open" THEN [conn |-> c, ret |-> TRUE]
    ELSE LET c1 == CreateConnection(up)
         IN [conn |-> c1, ret |-> c1 # "None"]

\* what can end channel.start_consuming() with an exception: the connection
\* is lost (ConnectionClosedByBroker, AMQPConnectionError), the channel is
\* closed (an AMQPChannelError), anything else
LoopFailures == {"connection_lost", "channel_error", "error"}

\* the except clauses of consume(): where the thread goes on
AfterFailure(kind) == IF kind = "connection_lost" THEN "sleep" ELSE "exited"

\* start_consuming, called once by start_event_system
StartConsuming ==
    /\ ~consuming
    /\ loopPc = "none"
    /\ consuming' = TRUE
    /\ loopPc' = "connect"
    /\ UNCHANGED <<consumer_connection, shutdown, loopLast, consumer_threads, busVars, crVars,
                   orchVars, dbVars, pageVars, mgrVars>>

\* consume(): the test of the while loop, connect_consumer, basic_qos,
\* basic_consume, and the entry into channel.start_consuming()
LoopConnect ==
    /\ loopPc = "connect"
    /\ IF ~consuming
       THEN /\ loopPc' = "exited"
            /\ UNCHANGED consumer_connection
       ELSE LET r == ConnectConsumer(consumer_connection, brokerUp)
            IN /\ consumer_connection' = r.conn
               /\ loopPc' = IF r.ret THEN "consuming" ELSE "sleep"
    /\ UNCHANGED <<consuming, shutdown, loopLast, consumer_threads, busVars, crVars, orchVars,
                   dbVars, pageVars, mgrVars>>

\* consume(): channel.start_consuming() ends with an exception. The broker
\* takes back the unsettled delivery of a closed connection or channel.
LoopFails(kind) ==
    /\ loopPc = "consuming"
    /\ loopPc' = AfterFailure(kind)
    /\ consuming' = (IF AfterFailure(kind) = "exited" THEN FALSE ELSE consuming)
    /\ consumer_connection' =
          (IF kind = "connection_lost" THEN "closed" ELSE consumer_connection)
    /\ loopLast' = kind
    /\ IF kind # "error" /\ unacked # NoMsg
       THEN /\ unacked' = NoMsg
            /\ crawler_queue' =
                  <<[unacked EXCEPT !.redelivered = TRUE]>> \o crawler_queue
       ELSE UNCHANGED <<unacked, crawler_queue>>
    /\ UNCHANGED <<shutdown, consumer_threads, brokerUp, conn, chan, lastPublish, status_queue,
                   published, acked, dropped, lastOutcome, lastSettle, crVars, orchVars,
                   dbVars, pageVars, mgrVars>>

\* consume(): time.sleep(5) is over
LoopWake ==
    /\ loopPc = "sleep"
    /\ loopPc' = "connect"
    /\ UNCHANGED <<consuming, consumer_connection, shutdown, loopLast, consumer_threads, busVars,
                   crVars, orchVars, dbVars, pageVars, mgrVars>>

\* stop_consuming (disconnect calls it first): channel.stop_consuming()
\* makes start_consuming() return in the consumer thread
StopConsuming ==
    /\ consuming
    /\ consuming' = FALSE
    /\ shutdown' = TRUE
    /\ loopPc' = IF loopPc = "consuming" THEN "connect" ELSE loopPc
    /\ UNCHANGED <<consumer_connection, loopLast, consumer_threads, busVars, crVars, orchVars,
                   dbVars, pageVars, mgrVars>>

\* the calls of start_consuming that are looked at
MaxCalls == 3
Calls == 1..MaxCalls

\* the consume() threads that are in their while loop
Looping == {k \in Calls : consumer_threads[k] = "looping"}

\* start_consuming as the k-th caller runs it, any thread and any number of
\* times: it returns when self.consuming is set, else it creates the
\* consume() thread and starts it.  self.consuming is set by consume(), in
\* the new thread, not by the caller.
StartConsumingCall(k) ==
    /\ consumer_threads[k] = "none"
    /\ \A i \in 1..(k - 1) : consumer_threads[i] # "none"
    /\ consumer_threads' =
          [consumer_threads EXCEPT ![k] = IF consuming THEN "refused"
                                          ELSE "started"]
    /\ UNCHANGED <<consuming, loopPc, consumer_connection, shutdown, loopLast,
                   busVars, crVars, orchVars, dbVars, pageVars, mgrVars>>

\* consume() begins in its thread: self.consuming = True, and the while
\* loop with connect_consumer, basic_consume and start_consuming
ConsumeBegins(k) ==
    /\ consumer_threads[k] = "started"
    /\ consuming' = TRUE
    /\ consumer_threads' = [consumer_threads EXCEPT ![k] = "looping"]
    /\ UNCHANGED <<loopPc, consumer_connection, shutdown, loopLast, busVars,
                   crVars, orchVars, dbVars, pageVars, mgrVars>>

\* consume(): except Exception sets self.consuming = False and the thread
\* ends
ConsumeEnds(k) ==
    /\ consumer_threads[k] = "looping"
    /\ consuming' = FALSE
    /\ consumer_threads' = [consumer_threads EXCEPT ![k] = "exited"]
    /\ UNCHANGED <<loopPc, consumer_connection, shutdown, loopLast, busVars,
                   crVars, orchVars, dbVars, pageVars, mgrVars>>

\* the broker delivers to a consumer that is in start_consuming(), and the
\* callback runs in its thread
ThreadDeliver == Looping # {} /\ Deliver
ThreadHandle(outcome) == Looping # {} /\ HandleMessage(outcome)

\* the broker delivers to the consumer while it is in start_consuming()
LoopDeliver == loopPc = "consuming" /\ Deliver

\* the delivery callback runs in the consumer thread
LoopHandle(outcome) == loopPc = "consuming" /\ HandleMessage(outcome)

LoopInit ==
    /\ consuming = FALSE
    /\ loopPc = "none"
    /\ consumer_connection = "None"
    /\ shutdown = FALSE
    /\ loopLast = "none"
    /\ consumer_threads = [k \in Calls |-> "none"]

-----------------------------------------------------------------------------
(* The jobs table (db.py) *)

MaxDbClock == 6

JobIds == {"j1", "j2"}

\* no row has this id
NoRow == [status |-> "absent"]

\* the bodies of POST /start-crawler: domain, depth, flags
StartCrawlerRequests ==
    {[domain |-> "a.org", depth |-> 1, flags |-> "{}"],
     [domain |-> "b.org", depth |-> 2, flags |-> "{js}"]}

\* JobUpdate: status and result, each optional
JobUpdates ==
    [status : {"None", "running", "failed"}, result : {"None", "{r}"}]

\* create_job: the row INSERT ... RETURNING gives, at NOW() = t
CreateJob(parameters, t) ==
    [status |-> "pending", parameters |-> parameters, result |-> "None",
     created_at |-> t, updated_at |-> t]

\* update_job mutated: status and result are both written, set or not
UpdateRowAllFields(row, job_up, t) ==
    [row EXCEPT !.status = job_up.status, !.result = job_up.result,
                !.updated_at = t]

\* update_job, the UPDATE ... SET of a row that matches, at NOW() = t
UpdateRow(row, job_up, t) ==
    IF job_up.status = "None" /\ job_up.result = "None"
    THEN row
    ELSE [row EXCEPT
            !.status = IF job_up.status # "None" THEN job_up.status ELSE @,
            !.result = IF job_up.result # "None" THEN job_up.result ELSE @,
            !.updated_at = t]

\* update_job(job_id, job_up) on the table tbl
UpdateJobIn(tbl, job_id, job_up, t) ==
    IF tbl[job_id] = NoRow THEN tbl
    ELSE [tbl EXCEPT ![job_id] = UpdateRow(@, job_up, t)]

\* start_crawler: the event_data handed to publish_crawler_event
StartCrawlerEventData(job_id, req) ==
    [job_id |-> job_id, url |-> req.domain, depth |-> req.depth,
     flags |-> req.flags]

\* start_crawler mutated: the job is marked queued whatever the publish
\* returned
StartCrawlerUpdateQueued(success) == [status |-> "queued", result |-> "None"]

\* start_crawler: the JobUpdate written after the publish
StartCrawlerUpdate(success) ==
    [status |-> IF success THEN "queued" ELSE "failed", result |-> "None"]

\* POST /start-crawler (main.py start_crawler), for a request whose job gets
\* the fresh id j: create_job, publish_crawler_event, update_job. Each
\* database call is a transaction of its own, with a later NOW().
DbStartCrawler(j, req) ==
    /\ table[j] = NoRow
    /\ dbClock + 2 <= MaxDbClock
    /\ LET t1 == dbClock + 1
           t2 == dbClock + 2
           created == [table EXCEPT ![j] = CreateJob(req, t1)]
           nb == BusPublish(BusState, RequestThread,
                            Event("start_crawler", j, "", NoStats))
           job_up == StartCrawlerUpdate(nb.ok)
       IN /\ BusBecomes(nb)
          /\ table' = UpdateJobIn(created, j, job_up, t2)
          /\ dbClock' = t2
          /\ dbLast' = [op |-> "start_crawler", job |-> j, arg |-> req,
                        pre |-> table, event |-> StartCrawlerEventData(j, req),
                        success |-> nb.ok, sent |-> Len(nb.sent) - Len(sent),
                        updates |-> <<job_up>>]
    /\ UNCHANGED <<brokerUp, lastPublish, unacked, acked, dropped, lastOutcome, lastSettle,
                   crVars, loopVars, pageVars, mgrVars, jobs, lastEdge, reqPc, stops,
                   active_crawlers, crawlers, poller, task, startOk, stopOk,
                   lastCmd>>

\* PUT /api/jobs/{job_id} (main.py update_job_api): update_job with the
\* JobUpdate of the request body
DbUpdateJob(j, job_up) ==
    /\ dbClock < MaxDbClock
    /\ LET t == dbClock + 1
       IN /\ table' = UpdateJobIn(table, j, job_up, t)
          /\ dbClock' = t
          /\ dbLast' = [op |-> "update_job", job |-> j, arg |-> job_up,
                        pre |-> table]
    /\ UNCHANGED <<busVars, crVars, orchVars, loopVars, pageVars, mgrVars>>

\* the exceptions run_scrapy_crawl may raise, by their message
CrawlExceptions == {"Crawler failed", "timeout"}

\* what run_scrapy_crawl does: it returns or raises one of the exceptions
CrawlOutcomes == {"returns"} \cup CrawlExceptions

\* {"error": str(e)}
ErrorResult(e) ==
    CASE e = "Crawler failed" -> "{error: Crawler failed}"
      [] e = "timeout" -> "{error: timeout}"

\* run_crawler_task mutated: the job is marked completed in the except
\* branch too
TaskLastUpdateCompleted(outcome) == [status |-> "completed", result |-> "None"]

\* run_crawler_task: the JobUpdate written after the crawl
TaskLastUpdate(outcome) ==
    IF outcome = "returns"
    THEN [status |-> "completed", result |-> "None"]
    ELSE [status |-> "failed", result |-> ErrorResult(outcome)]

\* run_crawler_task (tasks.py) for the job j, up to the crawl: update_job to
\* running
DbTaskBegin(j) ==
    /\ task[j].pc \in {"none", "retry"}
    /\ dbClock < MaxDbClock
    /\ LET t == dbClock + 1
           job_up == [status |-> "running", result |-> "None"]
       IN /\ table' = UpdateJobIn(table, j, job_up, t)
          /\ dbClock' = t
          /\ dbLast' = [op |-> "run_crawler_task: before the crawl", job |-> j,
                        pre |-> table, updates |-> <<job_up>>]
    /\ task' = [task EXCEPT ![j].pc = "running"]
    /\ UNCHANGED <<busVars, crVars, loopVars, pageVars, mgrVars, jobs, lastEdge, reqPc, stops,
                   active_crawlers, crawlers, poller, sent, startOk, stopOk,
                   lastCmd>>

\* run_crawler_task from the end of run_scrapy_crawl: update_job to
\* completed, or to failed with the error and the exception is raised
\* again, which makes Celery retry the task until max_retries
DbTaskEnd(j, outcome) ==
    /\ task[j].pc = "running"
    /\ dbClock < MaxDbClock
    /\ LET t == dbClock + 1
           job_up == TaskLastUpdate(outcome)
       IN /\ table' = UpdateJobIn(table, j, job_up, t)
          /\ dbClock' = t
          /\ dbLast' = [op |-> "run_crawler_task", job |-> j, arg |-> outcome,
                        pre |-> table,
                        updates |-> IF dbLast.op = "run_crawler_task: before the crawl"
                                       /\ dbLast.job = j
                                    THEN Append(dbLast.updates, job_up)
                                    ELSE <<job_up>>,
                        whole |-> (dbLast.op = "run_crawler_task: before the crawl"
                                   /\ dbLast.job = j),
                        raised |-> IF job_up.status = "failed"
                                   THEN outcome ELSE "None"]
    /\ task' = [task EXCEPT ![j] =
                  IF outcome = "returns" THEN [@ EXCEPT !.pc = "done"]
                  ELSE IF @.retries < max_retries
                       THEN [pc |-> "retry", retries |-> @.retries + 1]
                       ELSE [@ EXCEPT !.pc = "dead"]]
    /\ UNCHANGED <<busVars, crVars, loopVars, pageVars, mgrVars, jobs, lastEdge, reqPc, stops,
                   active_crawlers, crawlers, poller, sent, startOk, stopOk,
                   lastCmd>>

DbInit ==
    /\ table = [j \in JobIds |-> NoRow]
    /\ dbClock = 0
    /\ dbLast = [op |-> "none"]

-----------------------------------------------------------------------------
(* The page pipeline: embeddings.py, db.insert_web_page, tasks.py,
   pipelines.py *)

\* pages handed to the pipeline in one run of the model
MaxItems == 2
\* content events delivered again in one run of the model
MaxRedeliveries == 1

\* the width of the stored vector: dims=1024 in the source, kept small here
dims == 4

RECURSIVE SumSq(_, _, _)
\* the sum of the squares of v[lo..hi], by halves
SumSq(v, lo, hi) ==
    IF lo > hi THEN 0
    ELSE IF lo = hi THEN v[lo] * v[lo]
    ELSE LET mid == (lo + hi) \div 2
         IN SumSq(v, lo, mid) + SumSq(v, mid + 1, hi)

NormSq(v) == SumSq(v, 1, Len(v))

Zeros(n) == [i \in 1..n |-> 0]
Ones(n) == [i \in 1..n |-> 1]

\* A vector of reals is kept exactly as num / sqrt(den2), componentwise:
\* what the embedding service returns has den2 = 1.
Raw(v) == [num |-> v, den2 |-> 1]

\* None where a vector is expected
NoVector == [none |-> TRUE]

\* the square of the L2 norm of x is NormSq(x.num) / x.den2: it is 1 iff
HasNormOne(x) == NormSq(x.num) = x.den2

\* normalize: the embedding itself when its norm is 0, else embedding / norm
normalize(embedding) ==
    IF NormSq(embedding.num) = 0 THEN embedding
    ELSE [num |-> embedding.num, den2 |-> NormSq(embedding.num)]

\* truncate_or_pad_vector
truncate_or_pad_vector(vector, d) ==
    IF Len(vector.num) >= d
    THEN [vector EXCEPT !.num = SubSeq(vector.num, 1, d)]
    ELSE [vector EXCEPT !.num = vector.num \o Zeros(d - Len(vector.num))]

\* The embedding service (Ollama), asked for a text or an image url: what it
\* answers when it answers.  The same input gets the same vector.
ServiceEmbedding(input) ==
    CASE input = "c1" -> Raw(<<3, 4>>)
      [] input = "c2" -> Raw(Ones(dims + 1))
      [] input = "c3" -> Raw(Zeros(dims))
      [] input = "c4" -> Raw(Ones(dims))
      [] OTHER -> Raw(<< >>)

\* the service answers or raises
ServiceOutcomes == {"answers", "raises"}
\* the database executes the statement or raises
DbOutcomes == {"ok", "raises"}

\* A scraped page; "" is a key that is missing or empty.
Page(url, content, file_type, embedding_type, batch) ==
    [url |-> url, content |-> content, title |-> "t", file_type |-> file_type,
     embedding_type |-> embedding_type, batch_processing |-> batch]

PageInputs ==
    {Page("u1", "c1", "html", "text", FALSE),
     Page("u1", "c2", "html", "text", FALSE),
     Page("u2", "c3", "html", "text", TRUE),
     Page("u2", "c4", "html", "text", TRUE),
     Page("", "c1", "html", "text", FALSE),
     Page("u1", "", "html", "text", FALSE),
     Page("u3", "", "image", "vision", FALSE),
     Page("u3", "c1", "pdf", "none", FALSE)}

\* the row insert_web_page writes for data at time t
WebPageRow(data, t) ==
    [url |-> data.url, title |-> data.title, content |-> data.content,
     embedding |-> data.embedding, file_type |-> data.file_type,
     embedding_type |-> data.embedding_type, last_crawled |-> t]

\* INSERT with no ON CONFLICT clause, were the url not unique
InsertWebPagePlain(rows, data, t) == rows \cup {WebPageRow(data, t)}

\* insert_web_page: INSERT ... ON CONFLICT (url) DO UPDATE
insert_web_page(rows, data, t) ==
    {r \in rows : r.url # data.url} \cup {WebPageRow(data, t)}

\* CeleryPipeline.process_item: process_page_data_task.delay(dict(item));
\* a failure to send is logged and the item is passed on
CeleryProcessItem(p, delayed) ==
    /\ items < MaxItems
    /\ items' = items + 1
    /\ task_queue' = IF delayed
                     THEN Append(task_queue, [page |-> p, retries |-> 0])
                     ELSE task_queue
    /\ pageLast' = [op |-> "process_item", given |-> p, delayed |-> delayed]
    /\ UNCHANGED <<content_queue, batch_buffer, processing_stats, web_pages,
                   redeliveries,
                   busVars, crVars, orchVars, loopVars, mgrVars, dbVars>>

\* the embedding process_page_data_task computes from the service's answer
TaskEmbedding(page) ==
    LET embedding ==
            IF page.embedding_type = "text"
            THEN ServiceEmbedding(page.content)
            ELSE IF page.embedding_type = "vision"
            THEN ServiceEmbedding(page.url)
            ELSE NoVector
    IN IF embedding # NoVector /\ Len(embedding.num) > 0
       THEN truncate_or_pad_vector(normalize(embedding), dims)
       ELSE embedding

\* the page lacks a url
TaskRejectsNoUrl(page) == page.url = ""

\* process_page_data_task returns at once: the page lacks a url, or lacks
\* content and is no image
TaskRejects(page) ==
    \/ page.url = ""
    \/ (page.content = "" /\ page.file_type # "image")

\* process_page_data_task, one run of the task at the head of Celery's queue.
\* An exception is logged and raised again: autoretry_for=(Exception,) has
\* Celery run the task again, max_retries times at most.
ProcessPageDataTask(svc, db) ==
    /\ Len(task_queue) > 0
    /\ LET tk == Head(task_queue)
           page == tk.page
           invalid == TaskRejects(page)
           requested == ~invalid /\ page.embedding_type \in {"text", "vision"}
           failed == ~invalid /\ ((requested /\ svc = "raises")
                                   \/ db = "raises")
           stored == ~invalid /\ ~failed
           embedding == TaskEmbedding(page)
           db_page_data == [url |-> page.url, title |-> page.title,
                            content |-> page.content, embedding |-> embedding,
                            file_type |-> page.file_type,
                            embedding_type |-> page.embedding_type]
       IN /\ web_pages' = IF stored
                          THEN insert_web_page(web_pages, db_page_data,
                                               dbClock + 1)
                          ELSE web_pages
          /\ dbClock' = IF stored THEN dbClock + 1 ELSE dbClock
          /\ task_queue' =
                IF failed /\ tk.retries < max_retries
                THEN Append(Tail(task_queue), [tk EXCEPT !.retries = @ + 1])
                ELSE Tail(task_queue)
          /\ pageLast' = [op |-> "process_page_data_task", given |-> page,
                          retries |-> tk.retries, pre |-> web_pages,
                          requested |-> requested,
                          service_raised |-> requested /\ svc = "raises",
                          persisted |-> stored, raised |-> failed,
                          requeued |-> failed /\ tk.retries < max_retries,
                          handed |-> IF stored THEN embedding ELSE NoVector,
                          out |-> << >>]
    /\ UNCHANGED <<content_queue, batch_buffer, processing_stats, items,
                   redeliveries, busVars,
                   crVars, orchVars, loopVars, mgrVars, table, dbLast>>

-----------------------------------------------------------------------------
(* The content events: crawlers/scrapy/content_processors.py.  The bus they
   travel on, content_events, is not among the sources: a publish either
   succeeds and puts the event on the queue or fails, the consumer settles
   an event when its handler returns, and an event whose acknowledgement is
   lost is delivered again. *)

\* CONTENT_BATCH_SIZE, 10 unless the environment says otherwise
batch_size == 2

\* sha256 of "url:content", the first 16 hex digits after "content_": the
\* digest is kept as the string it is taken of
generate_content_id(url, content) == <<"content_", url, ":", content>>

ContentEvent(type, data) ==
    [type |-> type, data |-> data, redelivered |-> FALSE]

\* the data of the embedding request, built from the url alone
EmbeddingRequestDataNewId(data) ==
    [content_id |-> generate_content_id(data.url, ""), url |-> data.url,
     content |-> data.content, title |-> data.title]

\* _request_embedding: the data of the embedding request
EmbeddingRequestData(data) ==
    [content_id |-> data.content_id, url |-> data.url,
     content |-> data.content, title |-> data.title]

\* _publish_embedding_failed: data.copy() with the error message
EmbeddingFailedData(data, error_message) ==
    [error_message |-> error_message] @@ data

\* what a handler leaves behind: the buffer, the rows, the events it handed
\* to publish_content_event in order, and what it called on the way
Handled(buffer, rows, out, requested, service_raised, persisted, handed) ==
    [buffer |-> buffer, rows |-> rows, out |-> out, requested |-> requested,
     service_raised |-> service_raised, persisted |-> persisted,
     handed |-> handed, counted |-> << >>]

\* the counters of processing_stats, each 0 in __init__
Counters == {"scraped_count", "embedding_requests", "embeddings_created",
             "embeddings_failed", "content_stored", "storage_failed"}

\* the handler has moved each of these counters by one, in this order
Counting(names, h) == [h EXCEPT !.counted = names]

\* processing_stats[name] += 1 for each of the names
AddCounts(stats, names) ==
    [c \in Counters |->
        stats[c] + Cardinality({k \in 1..Len(names) : names[k] = c})]

\* _request_embedding: embedding_requests moves when the publish succeeded
CountsOfRequest(success) ==
    IF success THEN <<"embedding_requests">> ELSE << >>

\* embeddings_created moved before the result of the publish is looked at
CountsOfCreatedAtOnce(success) ==
    IF success THEN <<"embeddings_created">>
    ELSE <<"embeddings_created", "embeddings_failed">>

\* handle_embedding_request after publish_content_event(EMBEDDING_CREATED):
\* embeddings_created when it succeeded, else _publish_embedding_failed
CountsOfCreated(success) ==
    IF success THEN <<"embeddings_created">> ELSE <<"embeddings_failed">>

\* handle_scraped_content, with _process_batch when the buffer is full
HandleScrapedContent(data, buffer, rows, up) ==
    LET d == [content_id |-> generate_content_id(data.url, data.content)]
                @@ data
        buffered == Append(buffer, d)
        scraped == <<"scraped_count">>
    IN IF d.url = "" \/ d.content = ""
       THEN Counting(scraped,
                Handled(buffer, rows, << >>, FALSE, FALSE, FALSE, NoVector))
       ELSE IF d.batch_processing
       THEN IF Len(buffered) >= batch_size
            THEN Counting(scraped,
                     Handled(IF up THEN << >> ELSE buffered, rows,
                             <<ContentEvent("batch_process_content",
                                            [items |-> buffered])>>,
                             FALSE, FALSE, FALSE, NoVector))
            ELSE Counting(scraped,
                     Handled(buffered, rows, << >>, FALSE, FALSE, FALSE,
                             NoVector))
       ELSE Counting(scraped \o CountsOfRequest(up),
                Handled(buffer, rows,
                        <<ContentEvent("embedding_requested",
                                       EmbeddingRequestData(d))>>,
                        FALSE, FALSE, FALSE, NoVector))

\* handle_batch_processing: _request_embedding for each item
HandleBatchProcessing(data, buffer, rows, up) ==
    LET requests == [k \in 1..Len(data.items) |->
                        ContentEvent("embedding_requested",
                                     EmbeddingRequestData(data.items[k]))]
    IN Counting([k \in 1..(IF up THEN Len(requests) ELSE 0) |->
                    "embedding_requests"],
                Handled(buffer, rows, requests, FALSE, FALSE, FALSE,
                        NoVector))

\* handle_embedding_request
HandleEmbeddingRequest(data, buffer, rows, svc, up) ==
    IF data.content = ""
    THEN Counting(<<"embeddings_failed">>,
             Handled(buffer, rows,
                     <<ContentEvent("embedding_failed",
                           EmbeddingFailedData(data, "No content provided"))>>,
                     FALSE, FALSE, FALSE, NoVector))
    ELSE IF svc = "raises"
    THEN Counting(<<"embeddings_failed">>,
             Handled(buffer, rows,
                     <<ContentEvent("embedding_failed",
                           EmbeddingFailedData(data, "service raised"))>>,
                     TRUE, TRUE, FALSE, NoVector))
    ELSE LET embedding ==
                 truncate_or_pad_vector(
                     normalize(ServiceEmbedding(data.content)), dims)
             created == ContentEvent("embedding_created",
                                     [embedding |-> embedding] @@ data)
         IN Counting(CountsOfCreated(up),
                Handled(buffer, rows,
                        IF up THEN <<created>>
                        ELSE <<created,
                               ContentEvent("embedding_failed",
                                   EmbeddingFailedData(data,
                                       "Failed to publish embedding event"))>>,
                        TRUE, FALSE, FALSE, NoVector))

\* handle_embedding_created: insert_web_page, then content_stored, or
\* content_storage_failed when the insert raises
HandleEmbeddingCreated(data, buffer, rows, db, t) ==
    LET page_data == [url |-> data.url, title |-> data.title,
                      content |-> data.content, embedding |-> data.embedding,
                      file_type |-> "html", embedding_type |-> "text"]
    IN IF db = "raises"
       THEN Counting(<<"storage_failed">>,
                Handled(buffer, rows,
                        <<ContentEvent("content_storage_failed",
                              [content_id |-> data.content_id,
                               url |-> data.url,
                               error_message |-> "insert raised"])>>,
                        FALSE, FALSE, FALSE, NoVector))
       ELSE Counting(<<"content_stored">>,
                Handled(buffer, insert_web_page(rows, page_data, t),
                        <<ContentEvent("content_stored",
                              [content_id |-> data.content_id,
                               url |-> data.url])>>,
                        FALSE, FALSE, TRUE, data.embedding))

\* setup_content_processors: the handler of each event type; the handlers
\* of embedding_failed, content_stored and content_storage_failed only log
ContentHandler(ev, buffer, rows, svc, db, up, t) ==
    CASE ev.type = "content_scraped" ->
            HandleScrapedContent(ev.data, buffer, rows, up)
      [] ev.type = "embedding_requested" ->
            HandleEmbeddingRequest(ev.data, buffer, rows, svc, up)
      [] ev.type = "embedding_created" ->
            HandleEmbeddingCreated(ev.data, buffer, rows, db, t)
      [] ev.type = "batch_process_content" ->
            HandleBatchProcessing(ev.data, buffer, rows, up)
      [] OTHER -> Handled(buffer, rows, << >>, FALSE, FALSE, FALSE, NoVector)

\* a crawl publishes content_scraped for a page
ContentScraped(p) ==
    /\ items < MaxItems
    /\ items' = items + 1
    /\ content_queue' = Append(content_queue,
                               ContentEvent("content_scraped", p))
    /\ pageLast' = [op |-> "publish content_scraped", given |-> p]
    /\ UNCHANGED <<task_queue, batch_buffer, processing_stats, web_pages,
                   redeliveries,
                   busVars, crVars, orchVars, loopVars, mgrVars, dbVars>>

\* the consumer takes the event at the head of the queue and runs its
\* handler; the events the handler published join the queue
ContentConsume(svc, db, up, ackLost) ==
    /\ Len(content_queue) > 0
    /\ ackLost => redeliveries < MaxRedeliveries
    /\ redeliveries' = IF ackLost THEN redeliveries + 1 ELSE redeliveries
    /\ LET ev == Head(content_queue)
           r == ContentHandler(ev, batch_buffer, web_pages, svc, db, up,
                               dbClock + 1)
           again == IF ackLost
                    THEN <<[ev EXCEPT !.redelivered = TRUE]>>
                    ELSE << >>
       IN /\ batch_buffer' = r.buffer
          /\ processing_stats' = AddCounts(processing_stats, r.counted)
          /\ web_pages' = r.rows
          /\ dbClock' = IF r.persisted THEN dbClock + 1 ELSE dbClock
          /\ content_queue' = again \o Tail(content_queue)
                                \o (IF up THEN r.out ELSE << >>)
          /\ pageLast' = [op |-> ev.type, given |-> ev.data,
                          redelivered |-> ev.redelivered, pre |-> web_pages,
                          requested |-> r.requested,
                          service_raised |-> r.service_raised,
                          persisted |-> r.persisted, raised |-> FALSE,
                          requeued |-> FALSE,
                          handed |-> r.handed, out |-> r.out,
                          published |-> up, stats |-> processing_stats,
                          counted |-> r.counted]
    /\ UNCHANGED <<task_queue, items, busVars, crVars, orchVars, loopVars, mgrVars,
                   table, dbLast>>

PageInit ==
    /\ task_queue = << >>
    /\ content_queue = << >>
    /\ batch_buffer = << >>
    /\ processing_stats = [c \in Counters |-> 0]
    /\ web_pages = {}
    /\ items = 0
    /\ redeliveries = 0
    /\ pageLast = [op |-> "none"]

-----------------------------------------------------------------------------
(* The registry: CrawlerManager (interface.py) and the functions of
   crawler_factory.py that work on crawler_manager *)

Names == {"a", "b"}

Unregistered == [impl |-> "none", c |-> NoCrawler]

Registered(reg) == {n \in Names : reg[n] # Unregistered}

\* CrawlerInterface.is_running
is_running(c) == c.status = "running"

\* running or paused
IsActive(c) == c.status \in {"running", "paused"}

\* create_*_crawler with auto_register: crawler_manager.add_crawler
AddCrawler(n, impl) ==
    /\ registry' = [registry EXCEPT ![n] = [impl |-> impl, c |-> NewCrawler]]
    /\ mgrLast' = [op |-> "add_crawler", pre |-> registry, called |-> {},
                   results |-> << >>]
    /\ UNCHANGED <<busVars, crVars, orchVars, loopVars, dbVars, pageVars,
                     cfgVars>>

\* the outcome of a *_by_name function: the crawler's method is called when
\* the name is registered, else False is returned
ByName(op, n, r) ==
    /\ registry' = IF n \in Registered(registry)
                   THEN [registry EXCEPT ![n].c = r.c]
                   ELSE registry
    /\ mgrLast' = [op |-> op, pre |-> registry,
                   called |-> {n} \cap Registered(registry),
                   results |-> [m \in {n} |->
                                  IF n \in Registered(registry) THEN r.ret
                                  ELSE FALSE]]
    /\ UNCHANGED <<busVars, crVars, orchVars, loopVars, dbVars, pageVars,
                     cfgVars>>

StartCrawlerByName(n, b) ==
    /\ n \in Registered(registry) => b \in StartOutcomes(registry[n].impl)
    /\ ByName("start_crawler_by_name", n,
              Start(registry[n].impl, registry[n].c, now, b))

StopCrawlerByName(n, b) ==
    ByName("stop_crawler_by_name", n,
           Stop(registry[n].impl, registry[n].c, now, b))

PauseCrawlerByName(n) ==
    ByName("pause_crawler_by_name", n, Pause(registry[n].c))

ResumeCrawlerByName(n) ==
    ByName("resume_crawler_by_name", n, Resume(registry[n].c))

\* the crawlers a batch stop calls stop on: those for which is_running()
StopsRunning(reg) == {n \in Registered(reg) : is_running(reg[n].c)}

\* stop_all_crawlers and CrawlerManager.stop_all: stop() on every crawler
\* that is_running(); stop_all_crawlers reports True for the others
StopAll(op, bs) ==
    LET called == StopsRunning(registry)
        r == [n \in called |->
                Stop(registry[n].impl, registry[n].c, now, bs[n])]
    IN /\ registry' = [n \in Names |->
                         IF n \in called
                         THEN [registry[n] EXCEPT !.c = r[n].c]
                         ELSE registry[n]]
       /\ mgrLast' = [op |-> op, pre |-> registry, called |-> called,
                      results |-> [n \in Registered(registry) |->
                                     IF n \in called THEN r[n].ret ELSE TRUE]]
       /\ UNCHANGED <<busVars, crVars, orchVars, loopVars, dbVars, pageVars,
                     cfgVars>>

StopAllCrawlers(bs) == StopAll("stop_all_crawlers", bs)

ManagerStopAll(bs) == StopAll("stop_all", bs)

\* start_all_crawlers: start() on every crawler that is not running, True
\* for the others
StartAllCrawlers(bs) ==
    LET called == Registered(registry) \ StopsRunning(registry)
        r == [n \in called |->
                Start(registry[n].impl, registry[n].c, now, bs[n])]
    IN /\ \A n \in called : bs[n] \in StartOutcomes(registry[n].impl)
       /\ registry' = [n \in Names |->
                         IF n \in called
                         THEN [registry[n] EXCEPT !.c = r[n].c]
                         ELSE registry[n]]
       /\ mgrLast' = [op |-> "start_all_crawlers", pre |-> registry,
                      called |-> called,
                      results |-> [n \in Registered(registry) |->
                                     IF n \in called THEN r[n].ret ELSE TRUE]]
       /\ UNCHANGED <<busVars, crVars, orchVars, loopVars, dbVars, pageVars,
                     cfgVars>>

\* The dict object SCRAPY_CONFIG_EXAMPLE['settings'] of the module
ExampleSettings == "SCRAPY_CONFIG_EXAMPLE.settings"

\* SCRAPY_CONFIG_EXAMPLE: the value under 'settings' is a reference
SCRAPY_CONFIG_EXAMPLE ==
    [spider_name |-> "example_spider", settings |-> ExampleSettings]

\* the content of SCRAPY_CONFIG_EXAMPLE['settings'] at import
ExampleSettingsAtImport ==
    [ROBOTSTXT_OBEY |-> TRUE, USER_AGENT |-> "myproject"]

Urls == {"u1", "u2"}
DepthLimits == {1, 2}
SpiderNames == {"default_spider"}

NoConfig == [spider_name |-> "none", settings |-> "none"]

\* the settings create_crawler_from_event_data builds from a command
EventSettings(url, depth, obey) ==
    [DEPTH_LIMIT |-> depth, START_URLS |-> <<url>>, ROBOTSTXT_OBEY |-> obey]

\* dict.copy(): a new outer dict whose values are the same objects
DictCopy(d) == d

\* dict.update
DictUpdate(d, s) ==
    [k \in DOMAIN d \cup DOMAIN s |-> IF k \in DOMAIN s THEN s[k] ELSE d[k]]

\* ScrapyCrawler.start: self.config.get('settings', {}), the settings a
\* crawler applies when it starts
ConfigSettings(cfg, ds) == ds[cfg.settings]

Configured == {n \in Names : config[n] # NoConfig}

\* the settings every configured crawler holds
HeldSettings ==
    [n \in Names |-> IF n \in Configured THEN ConfigSettings(config[n], dicts)
                     ELSE << >>]

\* create_scrapy_crawler_with_settings: create_and_configure_scrapy_crawler
\* copies the example, writes the spider name into the copy, updates the
\* dict under 'settings' and hands the copy to ScrapyCrawler; the crawler
\* is then registered (auto_register)
CreateScrapyCrawlerWithSettings(n, spider_name, settings) ==
    LET copied == DictCopy(SCRAPY_CONFIG_EXAMPLE)
        cfg == [copied EXCEPT !.spider_name = spider_name]
    IN /\ dicts' = [dicts EXCEPT ![cfg.settings] = DictUpdate(@, settings)]
       /\ config' = [config EXCEPT ![n] = cfg]
       /\ cfgLast' = [op |-> "create", name |-> n, configured |-> Configured,
                      held |-> HeldSettings]
       /\ registry' = [registry EXCEPT
                         ![n] = [impl |-> "scrapy", c |-> NewCrawler]]
       /\ mgrLast' = [op |-> "add_crawler", pre |-> registry, called |-> {},
                      results |-> << >>]
       /\ UNCHANGED <<busVars, crVars, orchVars, loopVars, dbVars, pageVars>>

MgrInit ==
    /\ registry = [n \in Names |-> Unregistered]
    /\ mgrLast = [op |-> "none"]
    /\ dicts = [r \in {ExampleSettings} |-> ExampleSettingsAtImport]
    /\ config = [n \in Names |-> NoConfig]
    /\ cfgLast = [op |-> "none"]

-----------------------------------------------------------------------------
(* Specifications *)

InitBus == BusInit /\ CrInit({"scrapy"}) /\ OrchInit /\ LoopInit /\ DbInit /\ PageInit
        /\ MgrInit

NextBus ==
    \/ \E t \in PubThreads, e \in CrawlerEvent : PublishEvent(t, e)
    \/ Deliver
    \/ \E outcome \in {"ok", "raise"} : HandleMessage(outcome)

SpecBus == InitBus /\ [][NextBus]_vars

\* the same, with bodies on the queue that do not parse
NextBusRaw ==
    \/ \E t \in PubThreads, e \in CrawlerEvent : PublishEvent(t, e)
    \/ PublishRaw
    \/ Deliver
    \/ \E outcome \in {"ok", "raise"} : HandleMessage(outcome)

SpecBusRaw == InitBus /\ [][NextBusRaw]_vars

InitPub == BusInit /\ CrInit({"scrapy"}) /\ OrchInit /\ LoopInit /\ DbInit /\ PageInit
        /\ MgrInit

NextPub ==
    \/ \E t \in PubThreads, e \in CrawlerEvent : PublishEvent(t, e)
    \/ BrokerDown
    \/ BrokerBack

SpecPub == InitPub /\ [][NextPub]_vars

InitCrawler == BusInit /\ CrInit(Impls) /\ OrchInit /\ LoopInit /\ DbInit /\ PageInit
        /\ MgrInit

NextCrawler ==
    \/ CrStart
    \/ CrStop
    \/ CrPause
    \/ CrResume
    \/ CrNavigate
    \/ Tick

SpecCrawler == InitCrawler /\ [][NextCrawler]_vars

\* the consumer thread, with publishers and the broker
InitLoop == BusInit /\ CrInit({"scrapy"}) /\ OrchInit /\ LoopInit /\ DbInit /\ PageInit
        /\ MgrInit

NextLoop ==
    \/ StartConsuming
    \/ LoopConnect
    \/ \E kind \in LoopFailures : LoopFails(kind)
    \/ LoopWake
    \/ StopConsuming
    \/ LoopDeliver
    \/ \E outcome \in {"ok", "raise"} : LoopHandle(outcome)
    \/ \E t \in PubThreads, e \in CrawlerEvent : PublishEvent(t, e)
    \/ BrokerDown
    \/ BrokerBack

SpecLoop == InitLoop /\ [][NextLoop]_vars

\* start_consuming called several times with no stop_consuming between the
\* calls, by one thread or by several
NextStarts ==
    \/ \E k \in Calls : StartConsumingCall(k)
    \/ \E k \in Calls : ConsumeBegins(k)
    \/ \E k \in Calls : ConsumeEnds(k)
    \/ ThreadDeliver
    \/ \E outcome \in {"ok", "raise"} : ThreadHandle(outcome)
    \/ \E t \in PubThreads, e \in CrawlerEvent : PublishEvent(t, e)

SpecStarts == InitLoop /\ [][NextStarts]_vars

\* the jobs table under the endpoints and the task that write it
InitDb == BusInit /\ CrInit({"scrapy"}) /\ OrchInit /\ LoopInit /\ DbInit /\ PageInit
        /\ MgrInit

NextDb ==
    \/ \E j \in JobIds, req \in StartCrawlerRequests : DbStartCrawler(j, req)
    \/ \E j \in JobIds, job_up \in JobUpdates : DbUpdateJob(j, job_up)
    \/ \E j \in Jobs : DbTaskBegin(j)
    \/ \E j \in Jobs, outcome \in CrawlOutcomes : DbTaskEnd(j, outcome)
    \/ BrokerDown
    \/ BrokerBack

SpecDb == InitDb /\ [][NextDb]_vars

InitPages == BusInit /\ CrInit({"scrapy"}) /\ OrchInit /\ LoopInit /\ DbInit /\ PageInit
        /\ MgrInit

NextPages ==
    \/ \E p \in PageInputs, delayed \in BOOLEAN :
            CeleryProcessItem(p, delayed)
    \/ \E svc \in ServiceOutcomes, db \in DbOutcomes :
            ProcessPageDataTask(svc, db)
    \/ \E p \in PageInputs : ContentScraped(p)
    \/ \E svc \in ServiceOutcomes, db \in DbOutcomes, up \in BOOLEAN,
          ackLost \in BOOLEAN :
            ContentConsume(svc, db, up, ackLost)

SpecPages == InitPages /\ [][NextPages]_vars

\* the same, where the consumer of the content events and the Celery worker
\* do not stop while they have something to take; a crawl is free to
\* publish no further page
SpecPagesFair ==
    /\ InitPages /\ [][NextPages]_vars
    /\ WF_vars(\E svc \in ServiceOutcomes, db \in DbOutcomes, up \in BOOLEAN :
                   ContentConsume(svc, db, up, FALSE))
    /\ WF_vars(\E svc \in ServiceOutcomes, db \in DbOutcomes :
                   ProcessPageDataTask(svc, db))

InitManager == BusInit /\ CrInit({"scrapy"}) /\ OrchInit /\ LoopInit /\ DbInit
        /\ PageInit /\ MgrInit

AllStartOutcomes == UNION {StartOutcomes(impl) : impl \in Impls}

NextManager ==
    \/ \E n \in Names, impl \in Impls : AddCrawler(n, impl)
    \/ \E n \in Names, b \in AllStartOutcomes : StartCrawlerByName(n, b)
    \/ \E n \in Names, b \in StopOutcomes : StopCrawlerByName(n, b)
    \/ \E n \in Names : PauseCrawlerByName(n)
    \/ \E n \in Names : ResumeCrawlerByName(n)
    \/ \E bs \in [Names -> StopOutcomes] : StopAllCrawlers(bs)
    \/ \E bs \in [Names -> StopOutcomes] : ManagerStopAll(bs)
    \/ \E bs \in [Names -> AllStartOutcomes] : StartAllCrawlers(bs)

SpecManager == InitManager /\ [][NextManager]_vars

NextConfig ==
    \/ \E n \in Names, sp \in SpiderNames, url \in Urls, depth \in DepthLimits,
          obey \in BOOLEAN :
          CreateScrapyCrawlerWithSettings(n, sp, EventSettings(url, depth, obey))
    \/ \E n \in Names, b \in StartOutcomes("scrapy") : StartCrawlerByName(n, b)

SpecConfig == InitManager /\ [][NextConfig]_vars

InitOrch == BusInit /\ CrInit(Impls) /\ OrchInit /\ LoopInit /\ DbInit /\ PageInit
        /\ MgrInit

NextOrch ==
    \/ \E j \in Jobs : StartRequestCreate(j)
    \/ \E j \in Jobs : StartRequestPublish(j)
    \/ \E j \in Jobs : StartRequestUpdate(j)
    \/ \E j \in Jobs : StopRequest(j)
    \/ StopAllRequest
    \/ \E j \in Jobs, cmd \in {"pause_crawler", "resume_crawler"} :
          ExternalCommand(j, cmd)
    \/ Deliver
    \/ Consume
    \/ \E j \in Jobs : TaskBegin(j)
    \/ \E j \in Jobs, raised \in BOOLEAN : TaskEnd(j, raised)

SpecOrch == InitOrch /\ [][NextOrch]_vars

InitPoller ==
    BusInit /\ CrInit({"scrapy", "selenium"}) /\ PollerInit /\ LoopInit /\ DbInit /\ PageInit
        /\ MgrInit

NextPoller ==
    \/ \E j \in Jobs : PollerStep(j)
    \/ \E j \in Jobs : SpiderCompleted(j)
    \/ \E j \in Jobs : SpiderError(j)
    \/ \E j \in Jobs : StopRequest(j)
    \/ Tick
    \/ Deliver
    \/ Consume

\* start, pause and resume commands reach the job while it is polled
NextPollerCmds ==
    \/ \E j \in Jobs : PollerStep(j)
    \/ \E j \in Jobs : SpiderCompleted(j)
    \/ \E j \in Jobs : SpiderError(j)
    \/ \E j \in Jobs : StopRequest(j)
    \/ Deliver
    \/ Consume
    \/ \E j \in Jobs, cmd \in {"start_crawler", "pause_crawler",
                                "resume_crawler"} : ExternalCommand(j, cmd)

SpecPollerCmds == InitPoller /\ [][NextPollerCmds]_vars

\* the consumer thread keeps consuming: a queued message is delivered, a
\* delivered message is handled
SpecPoller ==
    /\ InitPoller
    /\ [][NextPoller]_vars
    /\ WF_vars(Deliver)
    /\ WF_vars(Consume)

\* a polled job and stop requests: the consumer thread keeps consuming and
\* a request thread that has published its command goes on to its write
NextStop ==
    \/ \E j \in Jobs : PollerStep(j)
    \/ \E j \in Jobs : SpiderCompleted(j)
    \/ \E j \in Jobs : SpiderError(j)
    \/ \E j \in Jobs : StopRequestPublish(j)
    \/ \E j \in Jobs : StopRequestUpdate(j)
    \/ Deliver
    \/ Consume

SpecStop ==
    /\ InitPoller
    /\ [][NextStop]_vars
    /\ WF_vars(Deliver)
    /\ WF_vars(Consume)
    /\ \A j \in Jobs : WF_vars(StopRequestUpdate(j))

-----------------------------------------------------------------------------
(* Claims *)

\* the messages the broker holds, in a queue or delivered and unsettled
InCommandQueue == {crawler_queue[i] : i \in 1..Len(crawler_queue)}
InStatusQueue == {status_queue[i] : i \in 1..Len(status_queue)}
Held == IF unacked = NoMsg THEN {} ELSE {unacked}

\* C1: a message whose handler raised is neither acked nor dropped: it is
\* back at the head of the queue it came from, flagged redelivered, or is
\* already being delivered to the handler again.
C1_RaiseRequeues ==
    \A i \in MsgIds :
        lastOutcome[i] = "raise" =>
            /\ i \notin acked
            /\ i \notin dropped
            /\ \/ /\ crawler_queue # <<>>
                  /\ Head(crawler_queue).id = i
                  /\ Head(crawler_queue).redelivered
               \/ /\ unacked # NoMsg
                  /\ unacked.id = i
                  /\ unacked.redelivered

\* the message whose handler raised is with the handler again
C1_Witness ==
    /\ unacked # NoMsg
    /\ unacked.redelivered
    /\ lastOutcome[unacked.id] = "raise"

\* C2: a publish never raises; after a failed publish the thread holds no
\* usable connection; and a publish made with the broker reachable, right
\* after a failed one on the same thread, opens a fresh connection and
\* returns True.
C2_PublishRecovers ==
    \A t \in Threads :
        /\ lastPublish[t].ret # "raise"
        /\ lastPublish[t].ret = "False" => conn[t] \notin {"open", "stale"}
        /\ (lastPublish[t].up /\ lastPublish[t].prev = "False") =>
               (lastPublish[t].ret = "True" /\ lastPublish[t].fresh)

\* the two routing classes of the event types
CommandEvents ==
    {"start_crawler", "stop_crawler", "pause_crawler", "resume_crawler"}
StatusEvents ==
    {"crawler_started", "crawler_stopped", "crawler_paused", "crawler_resumed",
     "crawler_progress", "crawler_completed", "crawler_failed"}

\* C3: every command event is in the command queue under the key
\* crawler.command.<event>, every status event is in the status queue under
\* the key crawler.status.<event>, and no event type is in both classes.
C3_RoutedByClass ==
    /\ CommandEvents \cap StatusEvents = {}
    /\ \A m \in InCommandQueue \cup Held :
          m.type \in CommandEvents \cup StatusEvents =>
              /\ m.type \in CommandEvents
              /\ m.key = <<"crawler", "command", m.type>>
    /\ \A m \in InStatusQueue :
          m.type \in CommandEvents \cup StatusEvents =>
              /\ m.type \in StatusEvents
              /\ m.key = <<"crawler", "status", m.type>>

\* the events of one type published for a job, as positions in sent
SentFor(event_type, j) ==
    {i \in DOMAIN sent : sent[i].type = event_type /\ sent[i].job = j}

\* C4: once the handler of start_crawler has constructed the crawler of a
\* job and the crawler's start() has returned True, crawler_started has been
\* published for the job (the handler publishes it before it returns).
C4_StartedIsPublished ==
    \A j \in startOk : SentFor("crawler_started", j) # {}

\* a crawler_completed event of the job is published and not yet handled
\* (in sent, the position of an event is the id of its message)
CompletedInFlight(j) ==
    \E i \in SentFor("crawler_completed", j) : i \notin acked

\* what holds of the poller's completion at every moment
PollerCompletedOnce ==
    \A j \in Jobs :
        /\ Cardinality(SentFor("crawler_completed", j)) <= 1
        /\ poller[j].saw = "completed" =>
              /\ poller[j].pc = "exited"
              /\ j \notin active_crawlers
              /\ \E i \in SentFor("crawler_completed", j) :
                    /\ sent[i].stats = StatsOf(crawlers[j])
                    /\ sent[i].stats.end_time # None

PollerEnded(j) ==
    \E i \in DOMAIN sent :
        /\ sent[i].job = j
        /\ sent[i].type \in {"crawler_completed", "crawler_failed"}
        /\ sent[i].stats # NoStats

\* C6: after the poller has published crawler_completed or crawler_failed
\* for a job, or the job's stop command has stopped its crawler, the
\* Crawler Manager holds no crawler for that job.
C6_TerminalLeavesRegistry ==
    \A j \in Jobs :
        (j \in stopOk \/ PollerEnded(j)) => crawlers[j] = NoCrawler

AllowedEdges ==
    {<<"pending", "queued">>, <<"queued", "running">>, <<"queued", "failed">>,
     <<"running", "paused">>, <<"running", "stopping">>,
     <<"running", "completed">>, <<"running", "failed">>,
     <<"paused", "running">>, <<"paused", "stopping">>,
     <<"stopping", "stopped">>}

\* C7: every write that changes the status of an existing job follows one
\* of the allowed edges.
C7_AllowedEdgesOnly ==
    (lastEdge.from # "none" /\ lastEdge.from # lastEdge.to) =>
        <<lastEdge.from, lastEdge.to>> \in AllowedEdges

TerminalStatuses == {"completed", "failed", "stopped"}

\* C8: no write changes the status of a job that is completed, failed or
\* stopped.
C8_TerminalIsFinal ==
    lastEdge.from \in TerminalStatuses => lastEdge.to = lastEdge.from

\* C9: no call of start, stop, pause or resume makes a status change that
\* the lifecycle has no edge for; stated for the changes the claim rules out
\* by name: from idle to stopped, and from stopped, completed or error back
\* to running.
C9_LifecycleEdgesOnly ==
    crLast.op \in {"start", "stop", "pause", "resume"} =>
        /\ ~(crLast.pre.status = "idle" /\ crawler.status = "stopped")
        /\ ~(crLast.pre.status \in {"stopped", "completed", "error"}
               /\ crawler.status = "running")

\* C11: stop() on a crawler that is stopped returns True and leaves the
\* status and every statistic, end_time and duration included, as they were,
\* in every implementation.
C11_StopOnStoppedIsNoOp ==
    (crLast.op = "stop" /\ crLast.pre.status = "stopped") =>
        /\ crLast.ret = TRUE
        /\ crawler.status = "stopped"
        /\ StatsOf(crawler) = StatsOf(crLast.pre)

\* the backend failed inside the last call: the call got as far as the
\* backend (start is refused on a running crawler, stop touches a backend
\* only if one is held, and in Scrapy only from running or paused) and the
\* backend raised, gave no driver, or the crawl it ran failed
BackendFailedInCall ==
    /\ crLast.backend \in {"raise", "no_driver", "spider_error"}
    /\ \/ crLast.op = "start" /\ crLast.pre.status # "running"
       \/ /\ crLast.op = "stop"
          /\ crLast.pre.backend
          /\ crImpl = "scrapy" => crLast.pre.status \in {"running", "paused"}

\* C12: no operation raises (each returns a boolean), and an operation in
\* which the backend failed returns False and leaves the crawler with status
\* error and a last_error message.
C12_FailureIsCaptured ==
    /\ crLast.ret \in BOOLEAN
    /\ BackendFailedInCall =>
          /\ crLast.ret = FALSE
          /\ crawler.status = "error"
          /\ crawler.error # "None"

\* C10: pause on a crawler that is not running, and resume on a crawler
\* that is not paused, return False and change no field of the crawler, in
\* every implementation.
C10_PauseResumeRefused ==
    /\ (crLast.op = "pause" /\ crLast.pre.status # "running")
          => (crLast.ret = FALSE /\ crawler = crLast.pre)
    /\ (crLast.op = "resume" /\ crLast.pre.status # "paused")
          => (crLast.ret = FALSE /\ crawler = crLast.pre)

\* pause was refused on a stopped crawler that had run
C10_Witness ==
    /\ crLast.op = "pause"
    /\ crLast.pre.status = "stopped"
    /\ crLast.pre.start_time # None
    /\ crLast.ret = FALSE

\* the commands that act on the crawler of a job that was started
LifecycleCommands == {"stop_crawler", "pause_crawler", "resume_crawler"}

\* the lifecycle event that reports the success of a command
LifecycleEventOf(cmd) ==
    CASE cmd = "stop_crawler" -> "crawler_stopped"
      [] cmd = "pause_crawler" -> "crawler_paused"
      [] cmd = "resume_crawler" -> "crawler_resumed"

\* C13: the handler of a stop, pause or resume command for a job that has an
\* active crawler publishes exactly one event: the matching lifecycle event
\* when the crawler operation returned True, crawler_failed when it returned
\* False.
C13_OneEventPerCommand ==
    (lastCmd.type \in LifecycleCommands /\ lastCmd.job \in lastCmd.active) =>
        /\ Len(lastCmd.called) = 1
        /\ Len(lastCmd.out) = 1
        /\ lastCmd.out[1].job = lastCmd.job
        /\ lastCmd.out[1].type = IF lastCmd.called[1]
                                 THEN LifecycleEventOf(lastCmd.type)
                                 ELSE "crawler_failed"

\* C14: the handler of a stop, pause or resume command for a job that has no
\* active crawler publishes nothing, calls no crawler operation, and leaves
\* active_crawlers, the manager's registry and every crawler as they were.
C14_UnknownJobIsNoOp ==
    [][(/\ unacked # NoMsg
        /\ unacked' = NoMsg
        /\ unacked.type \in LifecycleCommands
        /\ unacked.job \notin active_crawlers)
       => (/\ sent' = sent
           /\ published' = published
           /\ lastCmd'.out = <<>>
           /\ lastCmd'.called = <<>>
           /\ active_crawlers' = active_crawlers
           /\ crawlers' = crawlers)]_vars

\* a pause or resume command was handled for a job that had no active crawler
C14_Witness ==
    /\ lastCmd.type \in {"pause_crawler", "resume_crawler"}
    /\ lastCmd.job \notin lastCmd.active
    /\ lastCmd.out = <<>>

\* the message with this id is in a queue or with the consumer
WithBroker(i) ==
    \E m \in InCommandQueue \cup InStatusQueue \cup Held : m.id = i

\* C16: a delivery whose event type has no registered handler is acked
\* without a handler being run and is not put back on the queue; once acked
\* it is in no queue and is not delivered again.
C16_UnknownIsDropped ==
    /\ [][(/\ unacked # NoMsg
           /\ unacked.type \notin RegisteredEvents
           /\ unacked' = NoMsg)
          => (/\ unacked.id \in acked'
              /\ unacked.id \notin dropped'
              /\ lastOutcome'[unacked.id] = "no_handler"
              /\ crawler_queue' = crawler_queue
              /\ status_queue' = status_queue)]_vars
    /\ [](\A i \in MsgIds :
            lastOutcome[i] = "no_handler" => (i \in acked /\ ~WithBroker(i)))

\* a message of an unregistered type was delivered and acked, and another
\* message is with the consumer now
C16_Witness ==
    /\ \E i \in MsgIds : lastOutcome[i] = "no_handler" /\ i \in acked
    /\ unacked # NoMsg

\* the statuses a job may have
JobStatuses ==
    {"pending", "queued", "running", "paused", "stopping", "stopped",
     "completed", "failed"}

C15_LoopEndsOnlyOnShutdown ==
    loopPc = "exited" => shutdown

\* C17: a job that start_crawler or run_crawler_task has left with status
\* failed carries the error in its result.
C17_FailedCarriesError ==
    (/\ dbLast.op \in {"start_crawler", "run_crawler_task"}
     /\ table[dbLast.job] # NoRow
     /\ table[dbLast.job].status = "failed")
    => table[dbLast.job].result \in {ErrorResult(e) : e \in CrawlExceptions}

\* C19: update_job writes the fields the JobUpdate sets and a later
\* updated_at, and nothing else: the fields it does not set, created_at,
\* parameters and the other rows stay; with no field set nothing changes;
\* for an id that has no row, no row is made.
C19_UpdateWritesPatchOnly ==
    dbLast.op = "update_job" =>
        LET j == dbLast.job
            job_up == dbLast.arg
            old == dbLast.pre
        IN /\ \A k \in JobIds \ {j} : table[k] = old[k]
           /\ old[j] = NoRow => table[j] = NoRow
           /\ old[j] # NoRow =>
                 /\ table[j] # NoRow
                 /\ table[j].status = IF job_up.status = "None"
                                      THEN old[j].status ELSE job_up.status
                 /\ table[j].result = IF job_up.result = "None"
                                      THEN old[j].result ELSE job_up.result
                 /\ table[j].created_at = old[j].created_at
                 /\ table[j].parameters = old[j].parameters
                 /\ IF job_up.status = "None" /\ job_up.result = "None"
                    THEN table[j].updated_at = old[j].updated_at
                    ELSE table[j].updated_at > old[j].updated_at

\* update_job has written the status only, of a row that had a result, while
\* another row exists
C19_Witness ==
    /\ dbLast.op = "update_job"
    /\ dbLast.pre[dbLast.job] # NoRow
    /\ dbLast.pre[dbLast.job].result # "None"
    /\ dbLast.arg.status # "None"
    /\ dbLast.arg.result = "None"
    /\ \E k \in JobIds \ {dbLast.job} : table[k] # NoRow

C21_TaskUpdatesInOrder ==
    /\ (dbLast.op = "run_crawler_task: before the crawl") =>
          /\ task[dbLast.job].pc = "running"
          /\ dbLast.updates = <<[status |-> "running", result |-> "None"]>>
          /\ dbLast.pre[dbLast.job] # NoRow =>
                table[dbLast.job].status = "running"
    /\ (dbLast.op = "run_crawler_task" /\ dbLast.whole) =>
          LET j == dbLast.job
          IN IF dbLast.arg = "returns"
             THEN /\ Len(dbLast.updates) = 2
                  /\ dbLast.updates[1].status = "running"
                  /\ dbLast.updates[2].status = "completed"
                  /\ dbLast.raised = "None"
                  /\ task[j].pc = "done"
                  /\ dbLast.pre[j] # NoRow =>
                        /\ table[j].status = "completed"
                        /\ table[j].result = dbLast.pre[j].result
             ELSE /\ dbLast.updates[Len(dbLast.updates)] =
                        [status |-> "failed", result |-> ErrorResult(dbLast.arg)]
                  /\ dbLast.raised = dbLast.arg
                  /\ task[j].pc \in {"retry", "dead"}
                  /\ dbLast.pre[j] # NoRow =>
                        /\ table[j].status = "failed"
                        /\ table[j].result = ErrorResult(dbLast.arg)

\* the task has failed on a job that exists, after a run that completed
C21_Witness ==
    /\ dbLast.op = "run_crawler_task"
    /\ dbLast.whole
    /\ dbLast.arg = "timeout"
    /\ dbLast.pre[dbLast.job] # NoRow
    /\ task[dbLast.job].retries > 0


\* C22: a page event that lacks a url, or lacks content while its file type
\* is not image, is dropped by the task and by the content_scraped handler:
\* the embedding service is not asked, no row is written, nothing is
\* published, no exception is raised and the message is not requeued.
PageRuns == {"process_page_data_task", "content_scraped"}

C22_InvalidPageIsDropped ==
    (/\ pageLast.op \in PageRuns
     /\ \/ pageLast.given.url = ""
        \/ (pageLast.given.content = "" /\ pageLast.given.file_type # "image"))
    => /\ ~pageLast.requested
       /\ ~pageLast.persisted
       /\ web_pages = pageLast.pre
       /\ pageLast.out = << >>
       /\ ~pageLast.raised
       /\ ~pageLast.requeued

\* the task has dropped a page with a url and no content while the store
\* holds a row
C22_Witness ==
    /\ pageLast.op = "process_page_data_task"
    /\ pageLast.given.url # ""
    /\ pageLast.given.content = ""
    /\ pageLast.given.file_type # "image"
    /\ pageLast.pre # {}

\* C23: when the embedding service raises for an item, the run that asked it
\* publishes an embedding_failed event with the item's content_id and writes
\* no row for the item.
EmbeddingRuns == {"process_page_data_task", "embedding_requested"}

C23_ServiceFailureIsPublished ==
    (pageLast.op \in EmbeddingRuns /\ pageLast.service_raised)
    => /\ \E k \in 1..Len(pageLast.out) :
              /\ pageLast.out[k].type = "embedding_failed"
              /\ pageLast.out[k].data.content_id = pageLast.given.content_id
       /\ ~pageLast.persisted
       /\ web_pages = pageLast.pre

\* the same, of handle_embedding_request alone
C23_HandlerPublishesFailure ==
    (pageLast.op = "embedding_requested" /\ pageLast.service_raised)
    => /\ \E k \in 1..Len(pageLast.out) :
              /\ pageLast.out[k].type = "embedding_failed"
              /\ pageLast.out[k].data.content_id = pageLast.given.content_id
       /\ ~pageLast.persisted
       /\ web_pages = pageLast.pre

\* C24: the content id is generate_content_id(url, content), and when the
\* embedding_created handler has written a page, the content_stored event it
\* publishes carries the id the scrape stage gave to that url and content.
C24_StoredCarriesScrapeId ==
    /\ \A k \in 1..Len(content_queue) :
          content_queue[k].type \in {"embedding_requested", "embedding_created"}
          => content_queue[k].data.content_id
                = generate_content_id(content_queue[k].data.url,
                                      content_queue[k].data.content)
    /\ (pageLast.op = "embedding_created" /\ pageLast.persisted)
       => /\ Len(pageLast.out) = 1
          /\ pageLast.out[1].type = "content_stored"
          /\ \E r \in web_pages :
                /\ r.url = pageLast.out[1].data.url
                /\ pageLast.out[1].data.content_id
                      = generate_content_id(r.url, r.content)

\* a page that went through the batch buffer has been stored
C24_Witness ==
    /\ pageLast.op = "embedding_created"
    /\ pageLast.persisted
    /\ pageLast.given.url = "u2"
    /\ pageLast.out[1].type = "content_stored"

\* C25: whatever was delivered, redelivered or retried, the store holds at
\* most one row per url; and a run that writes a page whose url, content,
\* title and types the store already holds leaves that row as it was, but
\* for last_crawled.
SamePage(old, op, given) ==
    /\ old.url = given.url
    /\ old.content = given.content
    /\ old.title = given.title
    /\ old.file_type
          = (IF op = "process_page_data_task" THEN given.file_type ELSE "html")
    /\ old.embedding_type
          = (IF op = "process_page_data_task" THEN given.embedding_type
             ELSE "text")

C25_OneRowPerUrl ==
    /\ \A r1, r2 \in web_pages : r1.url = r2.url => r1 = r2
    /\ (pageLast.op \in {"process_page_data_task", "embedding_created"}
        /\ pageLast.persisted)
       => \A old \in pageLast.pre :
             SamePage(old, pageLast.op, pageLast.given)
             => [old EXCEPT !.last_crawled = dbClock] \in web_pages

\* an embedding_created event delivered a second time has been stored over
\* the row its first delivery wrote
C25_Witness ==
    /\ pageLast.op = "embedding_created"
    /\ pageLast.redelivered
    /\ pageLast.persisted
    /\ \E old \in pageLast.pre :
          /\ SamePage(old, pageLast.op, pageLast.given)
          /\ old.last_crawled < dbClock

\* C26: whatever the length of the embedding the service returned, the
\* vector computed for the store has dims components and L2 norm 1, or is
\* the zero vector when the service's embedding has norm 0.
ServiceAnswer(op, given) ==
    IF op = "process_page_data_task" /\ given.embedding_type = "vision"
    THEN ServiceEmbedding(given.url)
    ELSE ServiceEmbedding(given.content)

ComputedVector ==
    IF pageLast.op = "process_page_data_task" THEN pageLast.handed
    ELSE pageLast.out[1].data.embedding

C26_StoredVectorIsUnit ==
    (/\ pageLast.op \in EmbeddingRuns
     /\ pageLast.requested
     /\ ~pageLast.service_raised
     /\ pageLast.op = "process_page_data_task" => pageLast.persisted)
    => /\ Len(ComputedVector.num) = dims
       /\ IF NormSq(ServiceAnswer(pageLast.op, pageLast.given).num) = 0
          THEN ComputedVector.num = Zeros(dims)
          ELSE HasNormOne(ComputedVector)

\* C27: stop_all_crawlers and start_all_crawlers leave out a crawler, and
\* report True for it, only when it is already where the call would take
\* it; stop is called on every crawler that is running or paused when
\* stop_all_crawlers (or CrawlerManager.stop_all) is called, and when every
\* reported result is True none is running or paused afterwards.
C27_BatchSkipsOnlyTargetState ==
    /\ mgrLast.op \in {"stop_all_crawlers", "stop_all"}
       => /\ \A n \in Registered(mgrLast.pre) :
                IsActive(mgrLast.pre[n].c) => n \in mgrLast.called
          /\ (\A n \in Registered(mgrLast.pre) : mgrLast.results[n])
                => \A n \in Registered(registry) : ~IsActive(registry[n].c)
    /\ mgrLast.op = "start_all_crawlers"
       => \A n \in Registered(mgrLast.pre) :
             n \notin mgrLast.called
             => mgrLast.results[n] /\ is_running(mgrLast.pre[n].c)

\* the crawler_failed events the poller published for a job: they alone
\* carry final_stats
PollerFailed(j) ==
    {i \in SentFor("crawler_failed", j) : sent[i].stats # NoStats}

C31_BufferedIsFlushed ==
    (batch_buffer # << >>) ~> (batch_buffer = << >>)


\* how far the last handler moved a counter
Moved(c) == processing_stats[c] - pageLast.stats[c]

\* the types of the events the last handler handed to publish_content_event
HandedTypes == {pageLast.out[k].type : k \in 1..Len(pageLast.out)}

\* the events of the last handler that reached the bus
PublishedTypes == IF pageLast.published THEN HandedTypes ELSE {}

\* C32: each stage produces exactly one outcome per handled item and counts
\* it once.  A handled embedding request moves exactly one of
\* embeddings_created and embeddings_failed, by one, and has handed the
\* event of that counter to the bus; a handled embedding_created does so
\* with content_stored and storage_failed.  The two events of a stage never
\* both reach the bus, and no other counter moves.
C32_OneOutcomeCountedOnce ==
    /\ pageLast.op = "embedding_requested" =>
        /\ Moved("embeddings_created") + Moved("embeddings_failed") = 1
        /\ Moved("embeddings_created") \in {0, 1}
        /\ Moved("embeddings_created") = 1 =>
              /\ HandedTypes = {"embedding_created"}
              /\ PublishedTypes = {"embedding_created"}
        /\ Moved("embeddings_failed") = 1 =>
              /\ "embedding_failed" \in HandedTypes
              /\ "embedding_created" \notin PublishedTypes
        /\ \A c \in Counters \ {"embeddings_created", "embeddings_failed"} :
              Moved(c) = 0
    /\ pageLast.op = "embedding_created" =>
        /\ Moved("content_stored") + Moved("storage_failed") = 1
        /\ Moved("content_stored") \in {0, 1}
        /\ Moved("content_stored") = 1 =>
              HandedTypes = {"content_stored"}
        /\ Moved("storage_failed") = 1 =>
              HandedTypes = {"content_storage_failed"}
        /\ \A c \in Counters \ {"content_stored", "storage_failed"} :
              Moved(c) = 0

\* an embedding request has been handled whose embedding was computed and
\* whose embedding_created the bus refused: it is counted as failed; before
\* it a stored page had been counted
C32_Witness ==
    /\ pageLast.op = "embedding_requested"
    /\ pageLast.requested /\ ~pageLast.service_raised
    /\ ~pageLast.published
    /\ Moved("embeddings_failed") = 1
    /\ processing_stats["content_stored"] = 1
    /\ processing_stats["embeddings_created"] = 1


\* the stop command of job j has just been handled: the job was running or
\* had been set to stopping by the request, its crawler was running and
\* stop() returned True
StoppedOnRequest(j) ==
    /\ lastCmd.type = "stop_crawler"
    /\ lastCmd.job = j
    /\ lastCmd.called = <<TRUE>>
    /\ lastCmd.crawlers[j].status = "running"
    /\ jobs[j] \in {"running", "stopping"}

WorkerStatuses == {"running", "paused", "stopped", "completed", "failed"}

TerminalSent(j) ==
    SentFor("crawler_stopped", j) \cup SentFor("crawler_completed", j)
        \cup SentFor("crawler_failed", j)

DuplicateStart ==
    /\ lastCmd.type = "start_crawler"
    /\ lastCmd.job \in lastCmd.active
    /\ lastCmd.crawlers[lastCmd.job].status = "running"

C37_SettledExactlyOnce ==
    /\ acked \cap dropped = {}
    /\ \A i \in MsgIds :
          lastOutcome[i] # "none" =>
              /\ Len(lastSettle[i]) = 1
              /\ lastSettle[i][1] = "ack" <=> i \in acked
              /\ lastSettle[i][1] = "nack_drop" <=> i \in dropped
              /\ lastOutcome[i] = "unparseable" =>
                    /\ lastSettle[i] = <<"nack_drop">>
                    /\ ~WithBroker(i)

\* a body that does not parse has been dropped, and a delivery whose handler
\* raised has been put back on the queue
C37_Witness ==
    \E i, k \in MsgIds :
        /\ lastOutcome[i] = "unparseable"
        /\ i \in dropped
        /\ lastOutcome[k] = "raise"
        /\ lastSettle[k] = <<"nack_requeue">>


\* C38: when the spider run of a ScrapyCrawler has finished successfully,
\* the crawler's status is completed and start() does not put running over
\* it: after a start() in which the crawl ran to its end, the status is
\* completed (a done-like status, which the job's poller then observes).
C38_CompletedIsKept ==
    (/\ crImpl = "scrapy"
     /\ crLast.op = "start"
     /\ crLast.backend = "completed"
     /\ crLast.pre.status # "running")
        => crawler.status = "completed"


\* C39: after any sequence of calls of start_consuming with no
\* stop_consuming between them, made back to back or by several threads, at
\* most one consume() thread is in its loop, consuming from the queue.
C39_OneConsumerThread ==
    Cardinality(Looping) <= 1

\* C40: creating a crawler under one name leaves the settings held by every
\* crawler created earlier under another name as they were.
C40_OtherConfigsKept ==
    cfgLast.op = "create"
    => \A k \in cfgLast.configured \ {cfgLast.name} :
          ConfigSettings(config[k], dicts) = cfgLast.held[k]

====
